---- MODULE Spec2Model ----
(***************************************************************************)
(* BOOM ground station: the flight-phase event detector                    *)
(* (backend/src/telemetry/event_detector.py) driven by telemetry packets   *)
(* and by the external ARM / DISARM commands.                              *)
(*                                                                         *)
(* Units.  All quantities are integers:                                    *)
(*   time          1 tick = 1/9810 s  (0.1 s = 981 ticks), so that the     *)
(*                 code's v / 9.81 is the exact integer v * 100            *)
(*   velocity      0.1 m/s                                                 *)
(*   acceleration  0.01 g                                                  *)
(*   altitude      1 m                                                     *)
(*   confidence    0.01                                                    *)
(* An Optional[float] is <<>> (None) or <<x>>.                             *)
(***************************************************************************)
EXTENDS Integers, Sequences, FiniteSets, TLC

VARIABLES
    det,         \* the EnhancedEventDetector object (a record of its fields)
    now,         \* the ground station's wall clock (datetime.now())
    dev_ts,      \* timestamp carried by the latest packet (the vehicle's clock)
    returned,    \* list returned by the latest process_telemetry call
    lastOp,      \* the operation performed by the latest step
    last_cmd,    \* the latest external command ("none" before any)
    script_pos,  \* environment: progress through the nominal flight
    free_left,   \* environment: off-nominal operations still allowed
    parser,      \* the BrunitoParser object: its two counters
    validator,   \* the TelemetryValidator object: its statistics
    kalman,      \* the Kalman filter of the integrated processor
    packet_count,  \* IntegratedTelemetryProcessor.packet_count
    loop_pc,     \* where the telemetry processing loop stands
    in_hand,     \* the raw line or the record the loop holds (None or Some)
    logged,      \* the records handed to DataLogger.log_packet, in order
    broadcasting,  \* the records whose broadcast has started and not ended
    published,   \* the records whose broadcast has ended, in order
    ws           \* the WebSocketManager object and its broadcast in progress

\* the variables of the pipeline around the event detector
pipeVars == <<parser, validator, kalman, packet_count, loop_pc, in_hand, logged, broadcasting, published, ws>>

vars == <<det, now, dev_ts, returned, lastOp, last_cmd, script_pos, free_left,
          parser, validator, kalman, packet_count, loop_pc, in_hand, logged, broadcasting, published, ws>>

-----------------------------------------------------------------------------
(* Units *)

DS == 981 * 1              \* 0.1 s in ticks
Sec == 10 * DS             \* 1 s in ticks

None == <<>>
Some(x) == <<x>>
\* Python truthiness of an Optional[float]: None and 0.0 are falsy
Truthy(o) == o # None /\ o[1] # 0
\* Python's  a or b  on Optional[float] / float
OrElse(o, dflt) == IF Truthy(o) THEN o[1] ELSE dflt

Abs(x) == IF x < 0 THEN -x ELSE x
Max(a, b) == IF a >= b THEN a ELSE b
Last(s) == s[Len(s)]

RECURSIVE SumSeq(_)
SumSeq(s) == IF s = <<>> THEN 0 ELSE Head(s) + SumSeq(Tail(s))

\* the last n elements of s (Python s[-n:])
LastN(s, n) == IF Len(s) <= n THEN s ELSE SubSeq(s, Len(s) - n + 1, Len(s))

\* deque(maxlen=m).append(x): drop the oldest when full
Push(s, x, m) == IF Len(s) >= m THEN Append(Tail(s), x) ELSE Append(s, x)

-----------------------------------------------------------------------------
(* FlightPhase *)

FlightPhase == {"IDLE", "ARMED", "LAUNCH", "BOOST", "BURNOUT", "COAST", "APOGEE", "DESCENT", "LANDING", "LANDED"}

(* Detection thresholds and buffer sizes, EnhancedEventDetector.__init__ *)
launch_accel_threshold_g == 200
launch_min_samples == 3
launch_min_duration_s == 3 * DS
burnout_accel_drop_threshold_g == 150
apogee_velocity_threshold_mps == 5
landing_altitude_threshold_m == 20
landed_max_velocity_mps == 5
landed_accel_std_g == 10
mission_time_maxlen == 20
accel_g_maxlen == 20
vertical_velocity_maxlen == 50
altitude_maxlen == 100
predictor_maxlen == 50

-----------------------------------------------------------------------------
(* EnhancedEventDetector state *)

EmptyDict == [k \in {} |-> 0]

\* self.stats as set by __init__ and _reset_detection_state
InitialStats == [phase_durations |-> EmptyDict, max_acceleration_g |-> 0, max_velocity_mps |-> 0, max_altitude_m |-> 0, total_flight_time_s |-> 0]

\* ApogeePredictor(): three empty deques
NewApogeePredictor == [time_history |-> <<>>, altitude_history |-> <<>>, velocity_history |-> <<>>]

\* Mutant: the reset leaves the acceleration samples of the previous session.
ResetDetectionState_keepSamples(d, t_reset) ==
    [d EXCEPT
        !.current_phase = "IDLE",
        !.phase_history = << <<t_reset, "IDLE">> >>,
        !.mission_time_samples = <<>>,
        !.vertical_velocity_samples = <<>>,
        !.altitude_samples = <<>>,
        !.apogee_predictor = NewApogeePredictor,
        !.predicted_apogee_mission_time = None,
        !.apogee_window_start_time = None,
        !.apogee_window_end_time = None,
        !.apogee_event_triggered = FALSE,
        !.max_altitude_m = 0,
        !.max_altitude_mission_time = None,
        !.launch_mission_time = None,
        !.burnout_mission_time = None,
        !.apogee_mission_time = None,
        !.landing_mission_time = None,
        !.current_mission_time_s = 0,
        !.events = <<>>,
        !.stats = InitialStats]

\* Mutant: the reset leaves the events of the previous session in the list.
ResetDetectionState_keepEvents(d, t_reset) ==
    [d EXCEPT
        !.current_phase = "IDLE",
        !.phase_history = << <<t_reset, "IDLE">> >>,
        !.mission_time_samples = <<>>,
        !.accel_g_samples = <<>>,
        !.vertical_velocity_samples = <<>>,
        !.altitude_samples = <<>>,
        !.apogee_predictor = NewApogeePredictor,
        !.predicted_apogee_mission_time = None,
        !.apogee_window_start_time = None,
        !.apogee_window_end_time = None,
        !.apogee_event_triggered = FALSE,
        !.max_altitude_m = 0,
        !.max_altitude_mission_time = None,
        !.launch_mission_time = None,
        !.burnout_mission_time = None,
        !.apogee_mission_time = None,
        !.landing_mission_time = None,
        !.current_mission_time_s = 0,
        !.stats = InitialStats]

\* _reset_detection_state: t_reset is the datetime.now() it reads
ResetDetectionState(d, t_reset) ==
    [d EXCEPT
        !.current_phase = "IDLE",
        !.phase_history = << <<t_reset, "IDLE">> >>,
        !.mission_time_samples = <<>>,
        !.accel_g_samples = <<>>,
        !.vertical_velocity_samples = <<>>,
        !.altitude_samples = <<>>,
        !.apogee_predictor = NewApogeePredictor,
        !.predicted_apogee_mission_time = None,
        !.apogee_window_start_time = None,
        !.apogee_window_end_time = None,
        !.apogee_event_triggered = FALSE,
        !.max_altitude_m = 0,
        !.max_altitude_mission_time = None,
        !.launch_mission_time = None,
        !.burnout_mission_time = None,
        !.apogee_mission_time = None,
        !.landing_mission_time = None,
        !.current_mission_time_s = 0,
        !.events = <<>>,
        !.stats = InitialStats]

\* EnhancedEventDetector(): the fields as __init__ sets them, then the reset
\* __init__ ends with (t_reset is the clock read of that reset).
NewDetector(t_reset) ==
    ResetDetectionState(
        [current_phase |-> "IDLE",
         phase_history |-> << <<t_reset, "IDLE">> >>,
         mission_time_samples |-> <<>>,
         accel_g_samples |-> <<>>,
         vertical_velocity_samples |-> <<>>,
         altitude_samples |-> <<>>,
         apogee_predictor |-> NewApogeePredictor,
         predicted_apogee_mission_time |-> None,
         apogee_window_start_time |-> None,
         apogee_window_end_time |-> None,
         apogee_event_triggered |-> FALSE,
         max_altitude_m |-> 0,
         max_altitude_mission_time |-> None,
         launch_mission_time |-> None,
         burnout_mission_time |-> None,
         apogee_mission_time |-> None,
         landing_mission_time |-> None,
         current_mission_time_s |-> 0,
         events |-> <<>>,
         stats |-> InitialStats],
        t_reset)

\* stats['phase_durations'][old] = stats['phase_durations'].get(old, 0.0) + duration
AddDuration(pd, phase, duration) ==
    [p \in (DOMAIN pd) \cup {phase} |->
        (IF p \in DOMAIN pd THEN pd[p] ELSE 0) + (IF p = phase THEN duration ELSE 0)]

\* FlightEvent(type, timestamp, phase_transition, data, confidence)
FlightEvent(old_phase, new_phase, timestamp_dt, event_data) ==
    [type |-> <<old_phase, "_TO_", new_phase>>,
     timestamp |-> timestamp_dt,
     phase_transition |-> <<old_phase, new_phase>>,
     data |-> event_data,
     confidence |-> IF "detection_confidence" \in DOMAIN event_data THEN event_data.detection_confidence ELSE 100]

\* Mutant: the event is built and returned but never appended to self.events.
TransitionTo_noAppend(d, new_phase, timestamp_dt, event_data) ==
    LET old_phase == d.current_phase
        duration_s == timestamp_dt - Last(d.phase_history)[1]
        event == FlightEvent(old_phase, new_phase, timestamp_dt, event_data)
    IN  [d |-> [d EXCEPT
                   !.current_phase = new_phase,
                   !.stats.phase_durations = AddDuration(@, old_phase, duration_s),
                   !.phase_history = Append(@, <<timestamp_dt, new_phase>>)],
         ev |-> event]

\* Mutant: the duration of the old phase is measured from the start of the
\* session instead of from the previous history entry.
TransitionTo_durationFromStart(d, new_phase, timestamp_dt, event_data) ==
    LET old_phase == d.current_phase
        duration_s == timestamp_dt - d.phase_history[1][1]
        event == FlightEvent(old_phase, new_phase, timestamp_dt, event_data)
    IN  [d |-> [d EXCEPT
                   !.current_phase = new_phase,
                   !.stats.phase_durations = AddDuration(@, old_phase, duration_s),
                   !.phase_history = Append(@, <<timestamp_dt, new_phase>>),
                   !.events = Append(@, event)],
         ev |-> event]

\* _transition_to: returns the updated detector and the event
TransitionTo(d, new_phase, timestamp_dt, event_data) ==
    LET old_phase == d.current_phase
        duration_s == timestamp_dt - Last(d.phase_history)[1]
        event == FlightEvent(old_phase, new_phase, timestamp_dt, event_data)
    IN  [d |-> [d EXCEPT
                   !.current_phase = new_phase,
                   !.stats.phase_durations = AddDuration(@, old_phase, duration_s),
                   !.phase_history = Append(@, <<timestamp_dt, new_phase>>),
                   !.events = Append(@, event)],
         ev |-> event]

-----------------------------------------------------------------------------
(* ApogeePredictor *)

\* add_sample
AddSample(p, time, altitude, vertical_velocity) ==
    [time_history |-> Push(p.time_history, time, predictor_maxlen),
     altitude_history |-> Push(p.altitude_history, altitude, predictor_maxlen),
     velocity_history |-> Push(p.velocity_history, vertical_velocity, predictor_maxlen)]

RECURSIVE SumOver(_, _)
\* sum of f[i] for i in the set S
SumOver(f, S) ==
    IF S = {} THEN 0
    ELSE LET i == CHOOSE x \in S : TRUE IN f[i] + SumOver(f, S \ {i})

\* the sums of the least-squares fit over the ascending samples asc among the
\* last ten (ts, vs); times are relative to the first ascending sample i0 and
\* counted in 0.1 s steps (the sample times of the model are 0.1 s apart or a
\* multiple of it)
FitSums(ts, vs, asc, i0) ==
    LET tau == [i \in 1..10 |-> (ts[i] - ts[i0]) \div DS]
    IN  [n |-> Cardinality(asc),
         t0 |-> ts[i0],
         cur |-> tau[10],
         St |-> SumOver(tau, asc),
         Sv |-> SumOver(vs, asc),
         Stv |-> SumOver([i \in 1..10 |-> tau[i] * vs[i]], asc),
         Stt |-> SumOver([i \in 1..10 |-> tau[i] * tau[i]], asc)]

\* x * DS \div y for 0 <= x and 0 < y, without forming the product x * DS
\* (DS = 981 = 31 * 31 + 20)
ScaleToTicks(x, y) ==
    (x \div y) * DS + 31 * ((31 * (x % y)) \div y)
        + (31 * ((31 * (x % y)) % y) + 20 * (x % y)) \div y

\* np.polyfit(t, v, 1) and the zero crossing of the line v = a*t + b, with
\* a = num/den (m/s^2) and -b/a = top/bot (0.1 s steps).  The guards a < -0.1
\* and now < predicted < now + 60 s are evaluated exactly; the returned time
\* is rounded down to a tick.
FitApogee(f, num, den) ==
    IF ~(den > 0 /\ 10 * num < -den) THEN None
    ELSE IF /\ f.Sv * den - f.St * num > f.cur * f.n * (-num)
            /\ f.Sv * den - f.St * num < (f.cur + 600) * f.n * (-num)
    THEN Some(f.t0 + ScaleToTicks(f.Sv * den - f.St * num, f.n * (-num)))
    ELSE None

\* predict_apogee_time on the last ten samples (ts, vs)
PredictFromRecent(ts, vs, asc) ==
    IF Cardinality(asc) < 3 THEN None
    ELSE LET f == FitSums(ts, vs, asc, CHOOSE i \in asc : \A j \in asc : i <= j)
         IN  FitApogee(f, f.n * f.Stv - f.St * f.Sv, f.n * f.Stt - f.St * f.St)

\* predict_apogee_time
PredictApogeeTime(p) ==
    IF Len(p.velocity_history) < 10 THEN None
    ELSE PredictFromRecent(LastN(p.time_history, 10), LastN(p.velocity_history, 10),
                           {i \in 1..10 : LastN(p.velocity_history, 10)[i] > 1})

-----------------------------------------------------------------------------
(* EnhancedEventDetector: the condition checks *)

\* line 214: launch detection runs in ARMED only
\* Mutant: launch detection also runs while IDLE.
LaunchDetectionEnabled_idleToo(d) == d.current_phase \in {"IDLE", "ARMED"}

\* Mutant: launch detection runs again during the boost.
LaunchDetectionEnabled_boostToo(d) == d.current_phase \in {"ARMED", "BOOST"}

LaunchDetectionEnabled(d) == d.current_phase = "ARMED"

\* Mutant: the threshold itself counts as launch acceleration.
CheckLaunchConditions_atLeast(d) ==
    /\ Len(d.accel_g_samples) >= launch_min_samples
    /\ \A i \in 1..launch_min_samples :
          LastN(d.accel_g_samples, launch_min_samples)[i] >= launch_accel_threshold_g

\* _check_launch_conditions
CheckLaunchConditions(d) ==
    /\ Len(d.accel_g_samples) >= launch_min_samples
    /\ \A i \in 1..launch_min_samples :
          LastN(d.accel_g_samples, launch_min_samples)[i] > launch_accel_threshold_g

\* _check_burnout_conditions: the comparison with the mean of samples [-10:-3]
\* (seven samples) is written without the division
CheckBurnoutConditions(d, current_accel_g) ==
    /\ Len(d.accel_g_samples) >= 5
    /\ IF Len(d.accel_g_samples) > 10
       THEN LET n == Len(d.accel_g_samples)
                window == SubSeq(d.accel_g_samples, n - 9, n - 3)
            IN  7 * current_accel_g < SumSeq(window) - 7 * burnout_accel_drop_threshold_g
       ELSE 2 * current_accel_g < 3 * launch_accel_threshold_g - 2 * burnout_accel_drop_threshold_g
    /\ current_accel_g < launch_accel_threshold_g

\* lines 228-234: where a prolonged LAUNCH is forced to
\* Mutant: the prolonged LAUNCH is forced to COAST, as its log message says.
LaunchFallbackPhase_coast(accel_g) ==
    IF accel_g < burnout_accel_drop_threshold_g THEN "COAST" ELSE "BOOST"

LaunchFallbackPhase(accel_g) ==
    IF accel_g < burnout_accel_drop_threshold_g THEN "BURNOUT" ELSE "BOOST"

\* _start_apogee_prediction_window
StartApogeePredictionWindow(d, current_vertical_velocity_mps) ==
    IF current_vertical_velocity_mps > 0
    THEN LET predicted == d.current_mission_time_s + current_vertical_velocity_mps * 100
         IN  [d EXCEPT
                !.predicted_apogee_mission_time = Some(predicted),
                !.apogee_window_start_time = Some(predicted - 5 * Sec),
                !.apogee_window_end_time = Some(predicted + 5 * Sec)]
    ELSE d

\* lines 343-344 and 357-358: record the apogee time and latch the once-only flag
\* Mutant: the once-only flag is not latched.
MarkApogee_noLatch(d, apogee_time) ==
    [d EXCEPT !.apogee_mission_time = Some(apogee_time)]

MarkApogee(d, apogee_time) ==
    [d EXCEPT !.apogee_mission_time = Some(apogee_time), !.apogee_event_triggered = TRUE]

\* lines 359-363: the data of the late-detection apogee event
LateApogeeData(d, vertical_velocity_mps) ==
    [altitude_m |-> d.max_altitude_m,
     velocity_mps |-> vertical_velocity_mps,
     time_to_apogee_s |-> d.apogee_mission_time[1] - OrElse(d.burnout_mission_time, OrElse(d.launch_mission_time, 0)),
     detection_note |-> "Late detection - outside prediction window",
     detection_confidence |-> 50]

\* lines 327-329: the live prediction replaces the recorded one when it is truthy
UpdatePrediction(d, live_predicted_time) ==
    IF Truthy(live_predicted_time)
    THEN [d EXCEPT !.predicted_apogee_mission_time = live_predicted_time]
    ELSE d

\* Mutant: every packet counts as inside the prediction window.
WithinPredictionWindow_always(d) == TRUE

\* lines 331-333
WithinPredictionWindow(d) ==
    IF Truthy(d.apogee_window_start_time) /\ Truthy(d.apogee_window_end_time)
    THEN /\ d.apogee_window_start_time[1] <= d.current_mission_time_s
         /\ d.current_mission_time_s <= d.apogee_window_end_time[1]
    ELSE FALSE

\* Mutant: being close to the prediction inside the window weighs 0.3.
ApogeeConfidence_heavyWindow(d, vertical_velocity_mps, altitude_m) ==
    (IF Abs(vertical_velocity_mps) < apogee_velocity_threshold_mps THEN 50 ELSE 0)
    + (IF /\ d.max_altitude_mission_time # None
          /\ Abs(d.current_mission_time_s - d.max_altitude_mission_time[1]) < Sec
          /\ Abs(altitude_m - d.max_altitude_m) < 5
       THEN 30 ELSE 0)
    + (IF /\ WithinPredictionWindow(d)
          /\ d.predicted_apogee_mission_time # None
          /\ Abs(d.current_mission_time_s - d.predicted_apogee_mission_time[1]) < 2 * Sec
       THEN 30 ELSE 0)

\* lines 319-340: the detection confidence of this sample
ApogeeConfidence(d, vertical_velocity_mps, altitude_m) ==
    (IF Abs(vertical_velocity_mps) < apogee_velocity_threshold_mps THEN 50 ELSE 0)
    + (IF /\ d.max_altitude_mission_time # None
          /\ Abs(d.current_mission_time_s - d.max_altitude_mission_time[1]) < Sec
          /\ Abs(altitude_m - d.max_altitude_m) < 5
       THEN 30 ELSE 0)
    + (IF /\ WithinPredictionWindow(d)
          /\ d.predicted_apogee_mission_time # None
          /\ Abs(d.current_mission_time_s - d.predicted_apogee_mission_time[1]) < 2 * Sec
       THEN 20 ELSE 0)

\* lines 345-350: the data of the confidence-triggered apogee event
ApogeeData(d, vertical_velocity_mps, confidence) ==
    [altitude_m |-> d.max_altitude_m,
     velocity_mps |-> vertical_velocity_mps,
     time_to_apogee_s |-> d.apogee_mission_time[1] - OrElse(d.burnout_mission_time, OrElse(d.launch_mission_time, 0)),
     prediction_error_s |-> d.current_mission_time_s - OrElse(d.predicted_apogee_mission_time, d.current_mission_time_s),
     detection_confidence |-> confidence,
     within_window |-> WithinPredictionWindow(d)]

\* get_flight_summary, lines 444-449: the 'apogee_prediction' entry
ApogeePrediction(d) ==
    [predicted_time |-> d.predicted_apogee_mission_time,
     window_start |-> d.apogee_window_start_time,
     window_end |-> d.apogee_window_end_time,
     detected |-> d.apogee_event_triggered]

\* lines 353-355: past the window end by more than 2 s and clearly descending
LateApogee(d, vertical_velocity_mps) ==
    /\ ~d.apogee_event_triggered
    /\ Truthy(d.apogee_window_end_time)
    /\ d.current_mission_time_s > d.apogee_window_end_time[1] + 2 * Sec
    /\ vertical_velocity_mps < -(apogee_velocity_threshold_mps * 3)

\* a one-event result of the state machine
One(r) == [d |-> r.d, events |-> <<r.ev>>]

\* lines 342-364, on the detector d holding the live prediction
ApogeeDecision(d, confidence, vertical_velocity_mps, timestamp_dt) ==
    IF confidence >= 75
    THEN One(TransitionTo(MarkApogee(d, d.current_mission_time_s), "APOGEE", timestamp_dt,
                ApogeeData(MarkApogee(d, d.current_mission_time_s), vertical_velocity_mps, confidence)))
    ELSE IF LateApogee(d, vertical_velocity_mps)
    THEN One(TransitionTo(MarkApogee(d, OrElse(d.max_altitude_mission_time, d.current_mission_time_s)),
                "APOGEE", timestamp_dt,
                LateApogeeData(MarkApogee(d, OrElse(d.max_altitude_mission_time, d.current_mission_time_s)),
                               vertical_velocity_mps)))
    ELSE [d |-> d, events |-> <<>>]

\* the part of _check_apogee_conditions after the once-only guard
CheckApogeeUntriggered(d, vertical_velocity_mps, altitude_m, timestamp_dt) ==
    ApogeeDecision(d, ApogeeConfidence(d, vertical_velocity_mps, altitude_m), vertical_velocity_mps, timestamp_dt)

\* _check_apogee_conditions: returns the updated detector and the event, if any
CheckApogeeConditions(d, vertical_velocity_mps, altitude_m, timestamp_dt) ==
    IF d.apogee_event_triggered THEN [d |-> d, events |-> <<>>]
    ELSE CheckApogeeUntriggered(UpdatePrediction(d, PredictApogeeTime(d.apogee_predictor)),
                                vertical_velocity_mps, altitude_m, timestamp_dt)

\* _check_landing_approach_conditions
CheckLandingApproachConditions(altitude_m, vertical_velocity_mps) ==
    altitude_m < landing_altitude_threshold_m /\ vertical_velocity_mps < -10

\* _check_landed_conditions: with the last ten samples x (in 0.01 g),
\* np.std < 0.1 g is 10*sum(x^2) - sum(x)^2 < 100 * 10^2 and
\* |np.mean - 1.0| < 0.2 is |sum(x) - 1000| < 200
CheckLandedConditions(d, altitude_m, vertical_velocity_mps, accel_g) ==
    /\ Len(d.accel_g_samples) >= 10
    /\ Len(d.vertical_velocity_samples) >= 10
    /\ LET recent == LastN(d.accel_g_samples, 10)
           s1 == SumSeq(recent)
           s2 == SumSeq([i \in 1..10 |-> recent[i] * recent[i]])
       IN  /\ 2 * altitude_m < landing_altitude_threshold_m
           /\ Abs(vertical_velocity_mps) < landed_max_velocity_mps
           /\ 10 * s2 - s1 * s1 < 100 * landed_accel_std_g * landed_accel_std_g
           /\ Abs(s1 - 1000) < 200

-----------------------------------------------------------------------------
(* EnhancedEventDetector.process_telemetry *)

\* A telemetry dict as the detector reads it:
\*   ts_valid   whether 'timestamp' is an ISO string datetime.fromisoformat accepts
\*   ts         the timestamp
\*   accel      Optional 'accel_magnitude_g' (absent in Recovery packets)
\*   alt        Optional 'altitude_m'
\*   filtered   "state" (filtered_state is a dict) or "None" (the EKF stage failed)
\*   vv         filtered_state['vertical_velocity']
Telemetry(ts_valid, ts, accel, alt, filtered, vv) ==
    [ts_valid |-> ts_valid, ts |-> ts, accel |-> accel, alt |-> alt, filtered |-> filtered, vv |-> vv]

\* lines 192-197: the filtered vertical velocity, or a backward difference of
\* the altitude when the filter reports exactly 0.0
VerticalVelocity(d, telemetry, altitude_m) ==
    IF /\ telemetry.vv = 0
       /\ Len(d.altitude_samples) > 1
       /\ Len(d.mission_time_samples) > 1
    THEN LET n == Len(d.mission_time_samples)
             dt_est == d.mission_time_samples[n] - d.mission_time_samples[n - 1]
         IN  IF 1000 * dt_est > Sec
             THEN ((altitude_m - Last(d.altitude_samples)) * 10 * Sec) \div dt_est
             ELSE telemetry.vv
    ELSE telemetry.vv

\* lines 211-283: the state machine, on a detector whose buffers already hold
\* this sample
StateMachine(d, timestamp_dt, accel_g, altitude_m, vertical_velocity_mps) ==
    LET mt == d.current_mission_time_s
        none == [d |-> d, events |-> <<>>]
    IN
    IF LaunchDetectionEnabled(d) THEN
        IF CheckLaunchConditions(d)
        THEN One(TransitionTo([d EXCEPT !.launch_mission_time = Some(mt)], "LAUNCH", timestamp_dt,
                    [initial_acceleration_g |-> accel_g, altitude_m |-> altitude_m]))
        ELSE none
    ELSE IF d.current_phase = "LAUNCH" THEN
        IF Truthy(d.launch_mission_time) /\ mt - d.launch_mission_time[1] > launch_min_duration_s
        THEN IF 10 * accel_g > launch_accel_threshold_g * 8
             THEN One(TransitionTo(d, "BOOST", timestamp_dt,
                        [acceleration_g |-> accel_g, altitude_m |-> altitude_m, velocity_mps |-> vertical_velocity_mps]))
             ELSE IF Truthy(d.launch_mission_time) /\ mt - d.launch_mission_time[1] > 2 * Sec
             THEN IF LaunchFallbackPhase(accel_g) = "BOOST"
                  THEN One(TransitionTo(d, "BOOST", timestamp_dt, EmptyDict))
                  ELSE One(TransitionTo([d EXCEPT !.burnout_mission_time = Some(mt)],
                              LaunchFallbackPhase(accel_g), timestamp_dt, EmptyDict))
             ELSE none
        ELSE none
    ELSE IF d.current_phase = "BOOST" THEN
        IF CheckBurnoutConditions(d, accel_g)
        THEN LET d1 == [d EXCEPT !.burnout_mission_time = Some(mt)]
                 r == TransitionTo(d1, "BURNOUT", timestamp_dt,
                        [final_acceleration_g |-> accel_g, altitude_m |-> altitude_m,
                         velocity_mps |-> vertical_velocity_mps,
                         burn_time_s |-> mt - OrElse(d1.launch_mission_time, 0)])
             IN  [d |-> StartApogeePredictionWindow(r.d, vertical_velocity_mps), events |-> <<r.ev>>]
        ELSE none
    ELSE IF d.current_phase = "BURNOUT" THEN
        IF Truthy(d.burnout_mission_time) /\ mt - d.burnout_mission_time[1] > 2 * DS
        THEN One(TransitionTo(d, "COAST", timestamp_dt,
                    [altitude_m |-> altitude_m, velocity_mps |-> vertical_velocity_mps]))
        ELSE none
    ELSE IF d.current_phase = "COAST" THEN
        CheckApogeeConditions([d EXCEPT !.apogee_predictor = AddSample(@, mt, altitude_m, vertical_velocity_mps)],
                              vertical_velocity_mps, altitude_m, timestamp_dt)
    ELSE IF d.current_phase = "APOGEE" THEN
        IF vertical_velocity_mps < -(apogee_velocity_threshold_mps * 2)
        THEN One(TransitionTo(d, "DESCENT", timestamp_dt,
                    [altitude_m |-> altitude_m, velocity_mps |-> vertical_velocity_mps,
                     time_since_apogee_s |-> mt - OrElse(d.apogee_mission_time, mt)]))
        ELSE none
    ELSE IF d.current_phase = "DESCENT" THEN
        IF CheckLandingApproachConditions(altitude_m, vertical_velocity_mps)
        THEN One(TransitionTo(d, "LANDING", timestamp_dt,
                    [altitude_m |-> altitude_m, descent_rate_mps |-> Abs(vertical_velocity_mps)]))
        ELSE none
    ELSE IF d.current_phase = "LANDING" THEN
        IF CheckLandedConditions(d, altitude_m, vertical_velocity_mps, accel_g)
        THEN LET flight_time == mt - OrElse(d.launch_mission_time, 0)
                 d1 == [d EXCEPT !.landing_mission_time = Some(mt),
                                 !.stats.total_flight_time_s = flight_time]
             IN  One(TransitionTo(d1, "LANDED", timestamp_dt,
                        [final_altitude_m |-> altitude_m, impact_acceleration_g |-> accel_g,
                         flight_time_s |-> flight_time, max_altitude_achieved_m |-> d1.max_altitude_m]))
        ELSE none
    ELSE none

\* Mutant: a sample with an invalid timestamp still enters the altitude
\* buffer.
ProcessTelemetry_bufferSkipped(d, telemetry) ==
    IF ~telemetry.ts_valid
    THEN [d |-> [d EXCEPT !.altitude_samples = Push(@, OrElse(telemetry.alt, 0), altitude_maxlen)],
          events |-> <<>>, outcome |-> "skipped"]
    ELSE
    LET mt == telemetry.ts - d.phase_history[1][1]
        d1 == [d EXCEPT !.current_mission_time_s = mt,
                        !.mission_time_samples = Push(@, mt, mission_time_maxlen)]
    IN  IF telemetry.filtered = "None" THEN [d |-> d1, events |-> <<>>, outcome |-> "raised"]
        ELSE
        LET accel_g == IF telemetry.accel = None THEN 100 ELSE telemetry.accel[1]
            altitude_m == IF telemetry.alt = None THEN 0 ELSE telemetry.alt[1]
            vertical_velocity_mps == VerticalVelocity(d1, telemetry, altitude_m)
            d2 == [d1 EXCEPT
                     !.accel_g_samples = Push(@, accel_g, accel_g_maxlen),
                     !.altitude_samples = Push(@, altitude_m, altitude_maxlen),
                     !.vertical_velocity_samples = Push(@, vertical_velocity_mps, vertical_velocity_maxlen)]
            d3 == IF altitude_m > d2.max_altitude_m
                  THEN [d2 EXCEPT !.max_altitude_m = altitude_m, !.max_altitude_mission_time = Some(mt)]
                  ELSE d2
            d4 == [d3 EXCEPT
                     !.stats.max_acceleration_g = Max(@, accel_g),
                     !.stats.max_velocity_mps = Max(@, Abs(vertical_velocity_mps)),
                     !.stats.max_altitude_m = d3.max_altitude_m]
            r == StateMachine(d4, telemetry.ts, accel_g, altitude_m, vertical_velocity_mps)
        IN  [d |-> r.d, events |-> r.events, outcome |-> "processed"]

\* process_telemetry: returns the updated detector, the list of detected
\* events and how the call ended: "skipped" (invalid timestamp), "raised"
\* (filtered_state is None: AttributeError at line 192, after the mission time
\* was updated) or "processed"
ProcessTelemetry(d, telemetry) ==
    IF ~telemetry.ts_valid THEN [d |-> d, events |-> <<>>, outcome |-> "skipped"]
    ELSE
    LET mt == telemetry.ts - d.phase_history[1][1]
        d1 == [d EXCEPT !.current_mission_time_s = mt,
                        !.mission_time_samples = Push(@, mt, mission_time_maxlen)]
    IN  IF telemetry.filtered = "None" THEN [d |-> d1, events |-> <<>>, outcome |-> "raised"]
        ELSE
        LET accel_g == IF telemetry.accel = None THEN 100 ELSE telemetry.accel[1]
            altitude_m == IF telemetry.alt = None THEN 0 ELSE telemetry.alt[1]
            vertical_velocity_mps == VerticalVelocity(d1, telemetry, altitude_m)
            d2 == [d1 EXCEPT
                     !.accel_g_samples = Push(@, accel_g, accel_g_maxlen),
                     !.altitude_samples = Push(@, altitude_m, altitude_maxlen),
                     !.vertical_velocity_samples = Push(@, vertical_velocity_mps, vertical_velocity_maxlen)]
            d3 == IF altitude_m > d2.max_altitude_m
                  THEN [d2 EXCEPT !.max_altitude_m = altitude_m, !.max_altitude_mission_time = Some(mt)]
                  ELSE d2
            d4 == [d3 EXCEPT
                     !.stats.max_acceleration_g = Max(@, accel_g),
                     !.stats.max_velocity_mps = Max(@, Abs(vertical_velocity_mps)),
                     !.stats.max_altitude_m = d3.max_altitude_m]
            r == StateMachine(d4, telemetry.ts, accel_g, altitude_m, vertical_velocity_mps)
        IN  [d |-> r.d, events |-> r.events, outcome |-> "processed"]

-----------------------------------------------------------------------------
(* External commands *)

\* Mutant: re-arming an ARMED detector skips the full reset.
SetPhaseExternally_noReArmReset(d, new_phase, current_time, t_reset) ==
    IF new_phase # d.current_phase
    THEN LET d0 == IF new_phase = "ARMED"
                   THEN [ResetDetectionState(d, t_reset) EXCEPT !.current_phase = "IDLE"]
                   ELSE d
         IN  TransitionTo(d0, new_phase, current_time, [source |-> "external_command"]).d
    ELSE d

\* set_phase_externally(phase_str) for the two strings the callers pass;
\* current_time is the datetime.now() of line 418, t_reset the later one read
\* by _reset_detection_state when the reset runs
SetPhaseExternally(d, new_phase, current_time, t_reset) ==
    IF new_phase # d.current_phase
    THEN LET d0 == IF new_phase = "ARMED"
                   THEN [ResetDetectionState(d, t_reset) EXCEPT !.current_phase = "IDLE"]
                   ELSE d
         IN  TransitionTo(d0, new_phase, current_time, [source |-> "external_command"]).d
    ELSE IF new_phase = "ARMED" /\ d.current_phase = "ARMED"
    THEN LET d0 == [ResetDetectionState(d, t_reset) EXCEPT !.current_phase = "IDLE"]
         IN  TransitionTo(d0, "ARMED", current_time, [source |-> "external_re_arm"]).d
    ELSE d

\* EventDetectorProcessor.arm_system / IntegratedTelemetryProcessor.arm_system
ArmSystem(d, current_time, t_reset) == SetPhaseExternally(d, "ARMED", current_time, t_reset)

\* Mutant: the disarm goes through the full reset like an arm.
DisarmSystem_reset(d, current_time) ==
    IF d.current_phase = "IDLE" THEN d
    ELSE TransitionTo(ResetDetectionState(d, current_time), "IDLE", current_time, [source |-> "external_command"]).d

\* EventDetectorProcessor.disarm_system / IntegratedTelemetryProcessor.disarm_system
DisarmSystem(d, current_time) == SetPhaseExternally(d, "IDLE", current_time, current_time)

-----------------------------------------------------------------------------
(* The Brunito wire format and its parser (telemetry/protocol.py)          *)
(*                                                                         *)
(* A raw line is  [framed, fields]:  framed says whether the stripped line *)
(* starts with '<' and ends with '>', fields is the comma-separated list.  *)
(* A field is  [kind, v]:  "num" decodes to the number v, "garbled" makes  *)
(* int() / float() / strptime raise ValueError, "huge" is an integer too   *)
(* large for the float arithmetic applied to it (OverflowError).           *)
(* Parsed units: timestamp in ticks, altitude m, acceleration mg, angular  *)
(* rate 0.01 deg/s, magnetic field 0.1 uT, latitude/longitude 1e-7 deg.    *)

ARMED_FIELD_COUNT == 16
RECOVERY_FIELD_COUNT == 7

Field(v) == [kind |-> "num", v |-> v]
Garbled == [kind |-> "garbled", v |-> 0]
Huge == [kind |-> "huge", v |-> 0]

\* BrunitoParser.__init__
NewParser == [packet_count |-> 0, error_count |-> 0]

\* the exception raised by decoding field i of an Armed packet: the date and
\* time go through strptime, altitude through float(), fields 4..14 through
\* int() and float arithmetic, fields 15 and 16 through int() alone
ArmedFieldError(fields, i) ==
    IF fields[i].kind = "garbled" THEN "ValueError"
    ELSE IF fields[i].kind = "huge" /\ i >= 4 /\ i <= 14 THEN "OverflowError"
    ELSE "none"

\* the same for a Recovery packet: latitude and longitude are fields 3 and 4
RecoveryFieldError(fields, i) ==
    IF fields[i].kind = "garbled" THEN "ValueError"
    ELSE IF fields[i].kind = "huge" /\ i >= 3 /\ i <= 4 THEN "OverflowError"
    ELSE "none"

\* the dict literal is evaluated in field order: the first failing field
\* decides the exception
FirstArmedError(fields) ==
    IF \A i \in 1..Len(fields) : ArmedFieldError(fields, i) = "none" THEN "none"
    ELSE ArmedFieldError(fields,
            CHOOSE i \in 1..Len(fields) :
                /\ ArmedFieldError(fields, i) # "none"
                /\ \A j \in 1..(i - 1) : ArmedFieldError(fields, j) = "none")

FirstRecoveryError(fields) ==
    IF \A i \in 1..Len(fields) : RecoveryFieldError(fields, i) = "none" THEN "none"
    ELSE RecoveryFieldError(fields,
            CHOOSE i \in 1..Len(fields) :
                /\ RecoveryFieldError(fields, i) # "none"
                /\ \A j \in 1..(i - 1) : RecoveryFieldError(fields, j) = "none")

\* _parse_timestamp: second resolution
ParseTimestamp(date_str, time_str) == (date_str.v * 86400 + time_str.v) * Sec

\* floor of the square root of q, known to be at most bound
ISqrt(q, bound) == CHOOSE r \in 0..bound : r * r <= q /\ (r + 1) * (r + 1) > q

\* _calculate_derived_values: 'accel_magnitude_g' in 0.01 g, rounded down
AccelMagnitudeG(accel) ==
    IF accel[1] = 0 /\ accel[2] = 0 THEN Abs(accel[3]) \div 10
    ELSE ISqrt(accel[1] * accel[1] + accel[2] * accel[2] + accel[3] * accel[3],
               Abs(accel[1]) + Abs(accel[2]) + Abs(accel[3])) \div 10

\* the dict built by _parse_armed_telemetry
ArmedSample(self, fields) ==
    [mode |-> "ARMED",
     timestamp |-> ParseTimestamp(fields[1], fields[2]),
     packet_id |-> self.packet_count,
     altitude_m |-> fields[3].v,
     accel |-> Some(<<fields[4].v, fields[5].v, fields[6].v>>),
     gyro |-> Some(<<fields[7].v, fields[8].v, fields[9].v>>),
     mag |-> Some(<<fields[10].v, fields[11].v, fields[12].v>>),
     latitude |-> fields[13].v,
     longitude |-> fields[14].v,
     gps_satellites |-> fields[15].v,
     temperature_c |-> fields[16].v,
     accel_magnitude_g |-> Some(AccelMagnitudeG(<<fields[4].v, fields[5].v, fields[6].v>>))]

\* the dict built by _parse_recovery_telemetry: no IMU or magnetometer keys
RecoverySample(self, fields) ==
    [mode |-> "RECOVERY",
     timestamp |-> ParseTimestamp(fields[1], fields[2]),
     packet_id |-> self.packet_count,
     altitude_m |-> fields[5].v,
     accel |-> None,
     gyro |-> None,
     mag |-> None,
     latitude |-> fields[3].v,
     longitude |-> fields[4].v,
     gps_satellites |-> fields[6].v,
     temperature_c |-> fields[7].v,
     accel_magnitude_g |-> None]

\* what a parse call yields: the parser afterwards, the returned sample
\* (None or Some(dict)) and the exception that left the call, if any
Parsed(self, sample, raised) == [parser |-> self, sample |-> sample, raised |-> raised]

\* Mutant: the Armed decoder does not count the packets it decodes.
ParseArmedTelemetry_noCount(self, fields) ==
    IF FirstArmedError(fields) = "none"
    THEN Parsed(self, Some(ArmedSample(self, fields)), "none")
    ELSE IF FirstArmedError(fields) = "ValueError"
    THEN Parsed([self EXCEPT !.error_count = @ + 1], None, "none")
    ELSE Parsed(self, None, FirstArmedError(fields))

\* Mutant: the Armed decoder stamps every sample with packet id 0.
ParseArmedTelemetry_idZero(self, fields) ==
    IF FirstArmedError(fields) = "none"
    THEN Parsed([self EXCEPT !.packet_count = @ + 1],
                Some([ArmedSample(self, fields) EXCEPT !.packet_id = 0]), "none")
    ELSE IF FirstArmedError(fields) = "ValueError"
    THEN Parsed([self EXCEPT !.error_count = @ + 1], None, "none")
    ELSE Parsed(self, None, FirstArmedError(fields))

\* Mutant: the altitude of an Armed sample is offset by the parser's error
\* count.
ParseArmedTelemetry_altitudeDrift(self, fields) ==
    IF FirstArmedError(fields) = "none"
    THEN Parsed([self EXCEPT !.packet_count = @ + 1],
                Some([ArmedSample(self, fields) EXCEPT !.altitude_m = @ + self.error_count]), "none")
    ELSE IF FirstArmedError(fields) = "ValueError"
    THEN Parsed([self EXCEPT !.error_count = @ + 1], None, "none")
    ELSE Parsed(self, None, FirstArmedError(fields))

\* _parse_armed_telemetry: ValueError is counted and swallowed here, any other
\* exception leaves the method
ParseArmedTelemetry(self, fields) ==
    IF FirstArmedError(fields) = "none"
    THEN Parsed([self EXCEPT !.packet_count = @ + 1], Some(ArmedSample(self, fields)), "none")
    ELSE IF FirstArmedError(fields) = "ValueError"
    THEN Parsed([self EXCEPT !.error_count = @ + 1], None, "none")
    ELSE Parsed(self, None, FirstArmedError(fields))

\* _parse_recovery_telemetry
ParseRecoveryTelemetry(self, fields) ==
    IF FirstRecoveryError(fields) = "none"
    THEN Parsed([self EXCEPT !.packet_count = @ + 1], Some(RecoverySample(self, fields)), "none")
    ELSE IF FirstRecoveryError(fields) = "ValueError"
    THEN Parsed([self EXCEPT !.error_count = @ + 1], None, "none")
    ELSE Parsed(self, None, FirstRecoveryError(fields))

\* the  except Exception  of parse_telemetry
CountEscaped(r) ==
    IF r.raised = "none" THEN r
    ELSE Parsed([r.parser EXCEPT !.error_count = @ + 1], None, "none")

\* parse_telemetry
ParseTelemetry(self, data_line) ==
    IF ~data_line.framed
    THEN Parsed([self EXCEPT !.error_count = @ + 1], None, "none")
    ELSE IF Len(data_line.fields) = ARMED_FIELD_COUNT
    THEN CountEscaped(ParseArmedTelemetry(self, data_line.fields))
    ELSE IF Len(data_line.fields) = RECOVERY_FIELD_COUNT
    THEN CountEscaped(ParseRecoveryTelemetry(self, data_line.fields))
    ELSE Parsed([self EXCEPT !.error_count = @ + 1], None, "none")

-----------------------------------------------------------------------------
(* Quality flags (telemetry/validation.py, limits from config.py)          *)

ALTITUDE_MIN_M == -1000
ALTITUDE_MAX_M == 50000
ACCEL_MAX_G == 20
GYRO_MAX_DPS == 2000
MAG_MIN_UT == 10
MAG_MAX_UT == 100
TEMP_MIN_C == -40
TEMP_MAX_C == 85

\* TelemetryValidator.__init__
NewValidator ==
    [total_packets |-> 0, valid_packets |-> 0, gps_failures |-> 0, sensor_failures |-> 0]

\* _validate_gps: values within 0.00001 deg of zero mean "no fix"
GpsNoFix(data) == Abs(data.latitude) < 100 /\ Abs(data.longitude) < 100

\* Mutant: four satellites are not enough.
ValidateGps_moreThanFour(data) ==
    /\ ~GpsNoFix(data)
    /\ Abs(data.latitude) <= 90 * 10000000
    /\ Abs(data.longitude) <= 180 * 10000000
    /\ data.gps_satellites > 4

ValidateGps(data) ==
    /\ ~GpsNoFix(data)
    /\ Abs(data.latitude) <= 90 * 10000000
    /\ Abs(data.longitude) <= 180 * 10000000
    /\ data.gps_satellites >= 4

\* _validate_imu: any axis beyond the acceleration or the angular-rate limit
ImuOutOfRange(data) ==
    /\ data.accel # None
    /\ \/ \E i \in 1..3 : Abs(data.accel[1][i]) > ACCEL_MAX_G * 1000
       \/ data.gyro # None /\ \E i \in 1..3 : Abs(data.gyro[1][i]) > GYRO_MAX_DPS * 100

\* _validate_magnetometer: not all zero, magnitude within the limits
ValidateMagnetometer(data) ==
    \/ data.mag = None
    \/ LET m == data.mag[1]
           sq == m[1] * m[1] + m[2] * m[2] + m[3] * m[3]
       IN  /\ ~(m[1] = 0 /\ m[2] = 0 /\ m[3] = 0)
           /\ (MAG_MIN_UT * 10) * (MAG_MIN_UT * 10) <= sq
           /\ sq <= (MAG_MAX_UT * 10) * (MAG_MAX_UT * 10)

ValidateBarometer(data) == ALTITUDE_MIN_M <= data.altitude_m /\ data.altitude_m <= ALTITUDE_MAX_M

ValidateTemperature(data) == TEMP_MIN_C <= data.temperature_c /\ data.temperature_c <= TEMP_MAX_C

\* the quality flags of validate_packet
QualityFlags(data) ==
    [gps_valid |-> ValidateGps(data),
     imu_valid |-> ~ImuOutOfRange(data),
     mag_valid |-> ValidateMagnetometer(data),
     baro_valid |-> ValidateBarometer(data),
     temp_valid |-> ValidateTemperature(data),
     overall_valid |-> /\ ValidateGps(data) /\ ~ImuOutOfRange(data) /\ ValidateMagnetometer(data)
                       /\ ValidateBarometer(data) /\ ValidateTemperature(data)]

\* validate_packet: the validator's statistics after the call
ValidatePacket(v, data) ==
    [total_packets |-> v.total_packets + 1,
     valid_packets |-> v.valid_packets + (IF QualityFlags(data).overall_valid THEN 1 ELSE 0),
     gps_failures |-> v.gps_failures + (IF GpsNoFix(data) THEN 1 ELSE 0),
     sensor_failures |-> v.sensor_failures + (IF ImuOutOfRange(data) THEN 1 ELSE 0)]

-----------------------------------------------------------------------------
(* The telemetry record and the two processing stages                      *)
(* (telemetry/kalman_filter.py, telemetry/integrated_processor.py)         *)
(*                                                                         *)
(* The record is the dict handed from stage to stage.  keys is the set of  *)
(* keys the stages have added to the parsed sample; the values modelled    *)
(* are those the later stages and the consumers read.                      *)

EnrichmentKeys ==
    {"quality", "filtered_state", "filter_error", "flight_phase", "mission_time_s",
     "flight_summary", "events", "processing_info", "processing_error"}

\* main.py lines 69-70: the parsed sample with its quality flags
WithQuality(sample) ==
    [sample |-> sample,
     keys |-> {"quality"},
     quality |-> QualityFlags(sample),
     filtered_state |-> "absent",
     filter_health |-> "absent",
     vertical_velocity |-> 0,
     flight_phase |-> "absent",
     mission_time_s |-> None,
     events |-> <<>>,
     packet_count |-> 0]

\* The filter is kept abstractly.  Of the 15-element state vector and its
\* covariance the model keeps what the health report reads: which blocks of
\* the vector hold NaN or infinity (nan), whether the quaternion has norm 1
\* (normalized), whether the covariance is finite (P_finite), and which blocks
\* of the covariance can be non-zero (P: for each block of rows, the blocks
\* of columns).  Besides: the
\* last update time, whether state vector and covariance still hold the
\* constructor's values, and what the latest first-sample branch initialised
\* the position from.

\* lines 36-40, the layout of the state vector: position 0-2, velocity 3-5,
\* quaternion 6-9, gyro bias 10-12, accelerometer z bias 13, barometer bias 14
Blocks == {"pos", "vel", "quat", "gyro_bias", "accel_bias", "baro_bias"}

\* np.eye(15)
Diagonal == [a \in Blocks |-> {a}]

\* F of predict: np.eye(15) with F[0:3, 3:6] = I dt
Transition == [a \in Blocks |-> IF a = "pos" THEN {"pos", "vel"} ELSE {a}]

\* the blocks of A @ B, A + B and A.T that can be non-zero
Compose(A, B) == [a \in Blocks |-> UNION {B[b] : b \in A[a]}]

Plus(A, B) == [a \in Blocks |-> A[a] \cup B[a]]

Transpose(A) == [a \in Blocks |-> {b \in Blocks : a \in A[b]}]

\* the element of a one-element set: The({ e(k) : k \in {kf} }) is e(kf)
\* with kf evaluated once
The(S) == CHOOSE x \in S : TRUE

NewExtendedKalmanFilter ==
    [last_update_time |-> None, pristine |-> TRUE, initialised_from |-> "none",
     nan |-> {}, normalized |-> TRUE, P_finite |-> TRUE, P |-> Diagonal]

\* KalmanFilterProcessor(): integrated_processor.py imports the class from
\* kalman_filter.py, which does not define it; taken to be the filter of that
\* module, freshly constructed
NewKalmanFilterProcessor == NewExtendedKalmanFilter

\* lines 428-429 and 467-468: a GPS fix the filter may use
GpsUsable(telemetry) == telemetry.quality.gps_valid

\* Mutant: a timestamp difference of zero is used as the time step.
TimeStep_zeroAllowed(kf, current_timestamp_s) ==
    IF kf.last_update_time = None THEN DS
    ELSE IF current_timestamp_s - kf.last_update_time[1] < 0
            \/ current_timestamp_s - kf.last_update_time[1] > Sec
    THEN DS
    ELSE current_timestamp_s - kf.last_update_time[1]

\* process_telemetry, lines 426-450: the time step dt of the sample
TimeStep(kf, current_timestamp_s) ==
    IF kf.last_update_time = None THEN DS
    ELSE IF current_timestamp_s - kf.last_update_time[1] <= 0
            \/ current_timestamp_s - kf.last_update_time[1] > Sec
    THEN DS
    ELSE current_timestamp_s - kf.last_update_time[1]

\* line 426
IsFirstSample(kf) == kf.last_update_time = None

\* lines 426-439: the first sample of a session overwrites the position with
\* the GPS fix, if there is one; velocity, quaternion, biases and covariance
\* stay as they are
FirstSampleInit(kf, m) ==
    IF m.gps_pos
    THEN [kf EXCEPT !.initialised_from = "gps",
                    !.nan = (@ \ {"pos"}) \cup (IF m.altitude_finite THEN {} ELSE {"pos"})]
    ELSE [kf EXCEPT !.initialised_from = "default"]

\* predict: pos += vel * dt;  P = F P F^T + Q dt with F[0:3, 3:6] = I dt,
\* then symmetrised
Predict(kf) ==
    [kf EXCEPT !.nan = @ \cup (IF "vel" \in @ THEN {"pos"} ELSE {}),
               !.P = The({ Plus(FPF, Transpose(FPF)) :
                            FPF \in {Plus(Compose(Compose(Transition, @), Transpose(Transition)),
                                          Diagonal)} })]

\* K = P H^T S^-1 for a measurement matrix whose non-zero columns are the
\* blocks H: the blocks whose rows of K can be non-zero
GainRows(P, H) == {a \in Blocks : P[a] \cap H # {}}

\* self.state += K @ y;  self.P = (I - K H) P.  A zero row of K times a NaN
\* or infinite innovation is NaN: a non-finite innovation reaches every
\* element of the state.
Correct(kf, H, y_finite) ==
    The({ [k EXCEPT !.nan = IF y_finite THEN @ ELSE Blocks,
                    !.normalized = @ /\ y_finite /\ "quat" \notin GainRows(k.P, H),
                    !.P = Compose([a \in Blocks |-> IF a \in GainRows(k.P, H)
                                                     THEN {a} \cup H ELSE {a}], @)] :
          k \in {kf} })

\* self.state[6:10] /= np.linalg.norm(self.state[6:10])
Normalize(kf) == The({ [k EXCEPT !.normalized = "quat" \notin k.nan] : k \in {kf} })

\* update_imu: the quaternion integrated with the bias-corrected rate and
\* normalised (_update_quaternion), the velocity advanced with the rotated,
\* bias-corrected acceleration, the correction with H[2, 13] = 1, and the
\* final normalisation of line 152.  S = H P H^T + R_accel is not singular.
UpdateImu(kf) ==
    The({ Normalize(Correct(v, {"accel_bias"}, {"quat", "accel_bias"} \cap v.nan = {})) :
          v \in { [q EXCEPT !.nan = @ \cup (IF {"quat", "accel_bias"} \cap @ # {}
                                              THEN {"vel"} ELSE {})] :
                  q \in { Normalize([kf EXCEPT !.nan = @ \cup (IF "gyro_bias" \in @
                                                                THEN {"quat"} ELSE {}),
                                               !.normalized = FALSE]) } } })

\* update_gps: H[0:3, 0:3] = I, y = ned_pos - state[0:3]; returns after the
\* covariance update (line 173)
UpdateGps(kf, m) ==
    The({ Correct(k, {"pos"}, "pos" \notin k.nan /\ m.altitude_finite) : k \in {kf} })

\* update_baro: H[0, 2] = -1, H[0, 14] = 1, y = altitude + state[2] - state[14];
\* returns after the covariance update (line 194)
UpdateBaro(kf, m) ==
    The({ Correct(k, {"pos", "baro_bias"},
                  {"pos", "baro_bias"} \cap k.nan = {} /\ m.altitude_finite) : k \in {kf} })

\* Mutant: the magnetometer update returns after the covariance update.
UpdateMag_notNormalized(kf) == The({ Correct(k, {"quat"}, "quat" \notin k.nan) : k \in {kf} })

\* update_mag: H[0:3, 6:9] = I, y = mag - rotated reference; normalises (line 218)
UpdateMag(kf) == The({ Normalize(Correct(k, {"quat"}, "quat" \notin k.nan)) : k \in {kf} })

\* process_measurement with dt > 0: predict, then the updates of the sensors
\* present, in this order
ProcessMeasurement(kf, m) ==
    The({ IF m.mag THEN UpdateMag(c) ELSE c :
          c \in { IF m.baro_alt THEN UpdateBaro(b, m) ELSE b :
                  b \in { IF m.gps_pos THEN UpdateGps(a, m) ELSE a :
                          a \in {UpdateImu(Predict(kf))} } } })

\* check_filter_health: the flags the model keeps
CheckFilterHealth(kf) ==
    [state_finite |-> kf.nan = {},
     P_finite |-> kf.P_finite,
     quaternion_normalized |-> kf.nan = {} /\ kf.normalized,
     is_healthy |-> kf.nan = {} /\ kf.P_finite /\ kf.normalized]

\* The SensorMeasurement of lines 455-479: which sensors the record carries
\* and whether its altitude, the one value the parser decodes with float(),
\* is finite.
Measurement(timestamp, imu, gps_pos, mag, altitude_finite) ==
    [timestamp |-> timestamp, imu |-> imu, gps_pos |-> gps_pos, baro_alt |-> TRUE,
     mag |-> mag, altitude_finite |-> altitude_finite]

\* process_telemetry, lines 426-505, for a record whose timestamp parsed:
\* the first-sample branch, the time step, the measurement updates when the
\* record has IMU data, and the health report.  An unhealthy report is only
\* logged (lines 504-505).
FilterTelemetry(kf, m) ==
    The({ [kf |-> k2, dt |-> TimeStep(kf, m.timestamp), filter_health |-> CheckFilterHealth(k2)] :
          k2 \in { IF m.imu THEN ProcessMeasurement(k1, m) ELSE k1 :
                   k1 \in { [k0 EXCEPT !.last_update_time = Some(m.timestamp),
                                       !.pristine = FALSE] :
                            k0 \in { IF IsFirstSample(kf) THEN FirstSampleInit(kf, m)
                                     ELSE kf } } } })

\* the measurement the filter builds from a parsed sample: the parser's
\* numerals are finite, and its magnetometer keys ('mag_x_ut', protocol.py
\* lines 90-92) are not the ones line 476 looks for
MeasurementOf(telemetry) ==
    Measurement(telemetry.sample.timestamp,
                telemetry.sample.accel # None /\ telemetry.sample.gyro # None,
                GpsUsable(telemetry), FALSE, TRUE)

\* process_telemetry of kalman_filter.py.  ok says whether the call ran
\* through; vertical_velocity is the estimate it produced.  An exception
\* clears the last update time and leaves state and covariance as they are.
KalmanProcessTelemetry(kf, telemetry, ok, vertical_velocity) ==
    IF ok
    THEN The({ [kf |-> r.kf,
                telemetry |-> [telemetry EXCEPT
                                  !.keys = @ \cup {"filtered_state"},
                                  !.filtered_state = "state",
                                  !.filter_health = r.filter_health,
                                  !.vertical_velocity = vertical_velocity]] :
               r \in {FilterTelemetry(kf, MeasurementOf(telemetry))} })
    ELSE [kf |-> [kf EXCEPT !.last_update_time = None,
                            !.pristine = FALSE,
                            !.initialised_from =
                                IF ~IsFirstSample(kf) THEN @
                                ELSE IF GpsUsable(telemetry) THEN "gps" ELSE "default"],
          telemetry |-> [telemetry EXCEPT
                            !.keys = @ \cup {"filtered_state", "filter_error"},
                            !.filtered_state = "None"]]

\* WebSocketManager(): no clients.  Beside the set of clients the model keeps
\* the broadcast_telemetry call in progress: pc ("idle" or "sending", the
\* call is suspended in a send_json), size (the size of the set when the
\* for loop started), todo (the clients the iteration has not reached),
\* current (the client being sent to), disconnected (the local set of
\* failed clients); and of the latest call: record (its number), outcome
\* ("none", "done", "raised"), snapshot (the clients when it started), gone
\* (those that disconnected while it ran) and got (those that received the
\* record).
NewWebSocketManager ==
    [clients |-> {}, pc |-> "idle", size |-> 0, todo |-> {}, current |-> None,
     disconnected |-> {}, record |-> 0, outcome |-> "none", snapshot |-> {},
     gone |-> {}, got |-> {}]

\* EventDetectorProcessor.process_telemetry, lines 489-499: without a string
\* under 'timestamp' the detector is not called at all
EventDetectorProcessTelemetry(d, has_timestamp, telemetry) ==
    IF ~has_timestamp THEN [d |-> d, events |-> <<>>, outcome |-> "skipped"]
    ELSE ProcessTelemetry(d, telemetry)

\* the record as the detector reads it
AsTelemetry(rec) ==
    Telemetry(TRUE, rec.sample.timestamp, rec.sample.accel_magnitude_g,
              Some(rec.sample.altitude_m), rec.filtered_state, rec.vertical_velocity)

\* event_detector.py lines 501-516: the keys the event stage adds; 'events'
\* only when the packet caused a transition
EventKeys(events) ==
    {"flight_phase", "mission_time_s", "flight_summary"}
        \cup (IF events # <<>> THEN {"events"} ELSE {})

\* IntegratedTelemetryProcessor.process_telemetry, lines 31-46, on the record
\* the filter stage returned: the event stage and the processor metadata, or
\* 'processing_error' when the event stage raised
EventStage(d, count, rec) ==
    LET r == EventDetectorProcessTelemetry(d, TRUE, AsTelemetry(rec))
    IN  IF r.outcome = "raised"
        THEN [d |-> r.d, events |-> <<>>, outcome |-> r.outcome,
              telemetry |-> [rec EXCEPT !.keys = @ \cup {"processing_error"}]]
        ELSE [d |-> r.d, events |-> r.events, outcome |-> r.outcome,
              telemetry |-> [rec EXCEPT
                                !.keys = @ \cup EventKeys(r.events) \cup {"processing_info"},
                                !.flight_phase = r.d.current_phase,
                                !.mission_time_s = Some(r.d.current_mission_time_s),
                                !.events = r.events,
                                !.packet_count = count]]

-----------------------------------------------------------------------------
(* Environment: the packets and commands the detector is driven with *)

\* off-nominal operations (commands and packets) allowed in one behaviour
MaxFree == 1
\* packets fed in one behaviour of the launch-threshold specification
MaxLaunchPackets == 4

\* the wall clock when the backend starts
WallStart == 1000 * Sec
\* how far the wall clock advances up to a datetime.now() read
ClockSteps == {0, 1}
\* the vehicle clock (packet timestamps) relative to the wall clock at start:
\* ahead of it, or behind it such that the third packet carries WallStart
DevOffsets == {2 * Sec, -(3 * DS)}

\* a packet of the stream: dt is the time since the previous packet's timestamp
Packet(dt, accel, alt, vv) ==
    [kind |-> "armed", dt |-> dt, accel |-> Some(accel), alt |-> Some(alt), filtered |-> "state", vv |-> vv]

\* The nominal flight after the ARM command: three samples of 3 g (launch),
\* thrust 0.4 s later (boost), 1 g (burnout, climbing at 20 m/s), coast, the
\* peak at 101 m with 0.2 m/s (apogee), descent at 2 m/s, below 20 m
\* (landing), then at rest at 5 m until the last ten samples are all 1 g.
NominalFlight ==
    << Packet(DS, 300, 10, 50), Packet(DS, 300, 20, 100), Packet(DS, 300, 30, 150),
       Packet(4 * DS, 300, 60, 200), Packet(DS, 100, 80, 200), Packet(3 * DS, 100, 100, 100),
       Packet(DS, 100, 101, 2), Packet(DS, 100, 95, -20), Packet(DS, 100, 15, -20),
       Packet(DS, 100, 5, -1), Packet(DS, 100, 5, -1), Packet(DS, 100, 5, -1),
       Packet(DS, 100, 5, -1), Packet(DS, 100, 5, -1) >>

\* Off-nominal packets: a descending sample 0.1 s or 10 s later, a 10 s gap
\* with 1.55 g, a 3 g sample above the flight's peak, a sample with a zero
\* filtered velocity, a Recovery packet (no acceleration field), a packet whose
\* EKF stage failed (filtered_state None), one with an invalid timestamp and
\* one without a timestamp.
FreePackets ==
    { Packet(DS, 100, 5, -20), Packet(100 * DS, 100, 5, -20), Packet(100 * DS, 155, 120, 0),
      Packet(DS, 300, 120, 30), Packet(DS, 100, 100, 0),
      [kind |-> "recovery", dt |-> DS, accel |-> None, alt |-> Some(5), filtered |-> "state", vv |-> 0],
      [kind |-> "ekf_failed", dt |-> DS, accel |-> Some(100), alt |-> Some(5), filtered |-> "None", vv |-> 0],
      [kind |-> "bad_timestamp", dt |-> 0, accel |-> Some(100), alt |-> Some(5), filtered |-> "state", vv |-> 0],
      [kind |-> "no_timestamp", dt |-> 0, accel |-> Some(100), alt |-> Some(5), filtered |-> "state", vv |-> 0] }

\* accelerations around the launch threshold: 1.99 g, 2.0 g, 2.01 g
LaunchAccels == {199, 200, 201}

PacketOutcomes == {"processed", "skipped", "raised"}

-----------------------------------------------------------------------------
(* Initial state and operations *)

Init ==
    /\ now = WallStart
    /\ dev_ts \in {WallStart + off : off \in DevOffsets}
    /\ det = NewDetector(WallStart)
    /\ returned = <<>>
    /\ lastOp = "init"
    /\ last_cmd = "none"
    /\ script_pos = 0
    /\ free_left = MaxFree
    /\ parser = NewParser
    /\ validator = NewValidator
    /\ kalman = NewKalmanFilterProcessor
    /\ packet_count = 0
    /\ loop_pc = "read"
    /\ in_hand = None
    /\ logged = <<>>
    /\ broadcasting = <<>>
    /\ published = <<>>
    /\ ws = NewWebSocketManager

\* the packet p of the stream reaches EventDetectorProcessor.process_telemetry
Feed(p) ==
    LET ts == dev_ts + p.dt
        r == EventDetectorProcessTelemetry(det, p.kind # "no_timestamp",
                Telemetry(p.kind # "bad_timestamp", ts, p.accel, p.alt, p.filtered, p.vv))
    IN  /\ det' = r.d
        /\ returned' = r.events
        /\ lastOp' = r.outcome
        /\ dev_ts' = IF p.kind \in {"bad_timestamp", "no_timestamp"} THEN dev_ts ELSE ts
        /\ UNCHANGED <<now, last_cmd>>
        /\ UNCHANGED pipeVars

\* the ARM command: the first of a behaviour opens the nominal flight
Arm ==
    /\ \E d \in ClockSteps :
          /\ det' = ArmSystem(det, now, now + d)
          /\ now' = now + d
    /\ \/ script_pos = 0 /\ script_pos' = 1 /\ UNCHANGED free_left
       \/ script_pos > 0 /\ free_left > 0 /\ free_left' = free_left - 1 /\ UNCHANGED script_pos
    /\ lastOp' = "arm"
    /\ last_cmd' = "arm"
    /\ UNCHANGED <<dev_ts, returned>>
    /\ UNCHANGED pipeVars

\* the DISARM command
Disarm ==
    /\ free_left > 0
    /\ \E d \in ClockSteps :
          /\ det' = DisarmSystem(det, now + d)
          /\ now' = now + d
    /\ free_left' = free_left - 1
    /\ lastOp' = "disarm"
    /\ last_cmd' = "disarm"
    /\ UNCHANGED <<dev_ts, returned, script_pos>>
    /\ UNCHANGED pipeVars

\* IntegratedTelemetryProcessor.reset_processors (simulator start or reset,
\* serial port open): a new EventDetectorProcessor
ResetProcessors ==
    /\ free_left > 0
    /\ \E d \in ClockSteps :
          /\ det' = NewDetector(now + d)
          /\ now' = now + d
    /\ free_left' = free_left - 1
    /\ lastOp' = "reset"
    /\ last_cmd' = "reset"
    /\ UNCHANGED <<dev_ts, returned, script_pos>>
    /\ UNCHANGED pipeVars

\* the next packet of the nominal flight
ScriptPacket ==
    /\ script_pos >= 1
    /\ script_pos <= Len(NominalFlight)
    /\ Feed(NominalFlight[script_pos])
    /\ script_pos' = script_pos + 1
    /\ UNCHANGED free_left

\* an off-nominal packet
FreePacket ==
    /\ free_left > 0
    /\ \E p \in FreePackets : Feed(p)
    /\ free_left' = free_left - 1
    /\ UNCHANGED script_pos

Next == Arm \/ Disarm \/ ResetProcessors \/ ScriptPacket \/ FreePacket

Spec == Init /\ [][Next]_vars

-----------------------------------------------------------------------------
(* The launch threshold: ARM commands and packets 0.1 s apart whose        *)
(* acceleration magnitude is 1.99 g, 2.0 g or 2.01 g                       *)

LaunchArm ==
    /\ free_left > 0
    /\ \E d \in ClockSteps :
          /\ det' = ArmSystem(det, now, now + d)
          /\ now' = now + d
    /\ free_left' = free_left - 1
    /\ lastOp' = "arm"
    /\ last_cmd' = "arm"
    /\ UNCHANGED <<dev_ts, returned, script_pos>>
    /\ UNCHANGED pipeVars

LaunchPacket ==
    /\ script_pos < MaxLaunchPackets
    /\ \E a \in LaunchAccels : Feed(Packet(DS, a, 10, 0))
    /\ script_pos' = script_pos + 1
    /\ UNCHANGED free_left

NextLaunch == LaunchArm \/ LaunchPacket

SpecLaunch == Init /\ [][NextLaunch]_vars

-----------------------------------------------------------------------------
(* The ascent: an ARM, three packets of 3 g 0.1 s apart, which launch, and *)
(* then packets 0.2 s, 0.3 s or 2.1 s apart with 3 g, 1.55 g or 1 g        *)

\* packets fed after the launch in one behaviour of the ascent specification
MaxAscentPackets == 4

\* the vehicle clock against the ground clock at the arm: 2 s ahead, or
\* behind by 0.3 s or 0.9 s, which puts the third or the sixth packet at
\* mission time 0
InitAscent ==
    /\ now = WallStart
    /\ dev_ts \in {WallStart + off : off \in {2 * Sec, -(3 * DS), -(9 * DS)}}
    /\ det = NewDetector(WallStart)
    /\ returned = <<>>
    /\ lastOp = "init"
    /\ last_cmd = "none"
    /\ script_pos = 0
    /\ free_left = MaxFree
    /\ parser = NewParser
    /\ validator = NewValidator
    /\ kalman = NewKalmanFilterProcessor
    /\ packet_count = 0
    /\ loop_pc = "read"
    /\ in_hand = None
    /\ logged = <<>>
    /\ broadcasting = <<>>
    /\ published = <<>>
    /\ ws = NewWebSocketManager

AscentArm ==
    /\ script_pos = 0
    /\ det' = ArmSystem(det, now, now)
    /\ script_pos' = 1
    /\ lastOp' = "arm"
    /\ last_cmd' = "arm"
    /\ UNCHANGED <<now, dev_ts, returned, free_left>>
    /\ UNCHANGED pipeVars

AscentLaunchPacket ==
    /\ script_pos \in 1..3
    /\ Feed(Packet(DS, 300, 10 * script_pos, 50))
    /\ script_pos' = script_pos + 1
    /\ UNCHANGED free_left

AscentPacket ==
    /\ script_pos > 3
    /\ script_pos <= 3 + MaxAscentPackets
    /\ \E dt \in {2 * DS, 3 * DS, 21 * DS}, a \in {300, 155, 100} : Feed(Packet(dt, a, 120, 30))
    /\ script_pos' = script_pos + 1
    /\ UNCHANGED free_left

NextAscent == AscentArm \/ AscentLaunchPacket \/ AscentPacket

SpecAscent == InitAscent /\ [][NextAscent]_vars

-----------------------------------------------------------------------------
(* The coast: after the launch, thrust 0.4 s later (boost), 1 g (burnout,  *)
(* climbing at 20 m/s or already falling), 0.3 s later the coast, then     *)
(* packets 0.1 s apart that climb 1 m each while the vehicle decelerates   *)
(* by 5 or 10 m/s^2                                                        *)

\* packets fed after the launch in one behaviour of the coast specification:
\* boost, burnout, coast, then the coast samples (ten are needed by the fit)
MaxCoastPackets == 14

CoastPacket ==
    /\ script_pos > 3
    /\ script_pos <= 3 + MaxCoastPackets
    /\ \/ script_pos = 4 /\ Feed(Packet(4 * DS, 300, 60, 200))
       \/ script_pos = 5 /\ \E v \in {200, -10} : Feed(Packet(DS, 100, 80, v))
       \/ script_pos = 6 /\ Feed(Packet(3 * DS, 100, 100, 190))
       \/ script_pos > 6 /\ \E dv \in {5, 10} :
               Feed(Packet(DS, 100, 94 + script_pos, Last(det.vertical_velocity_samples) - dv))
    /\ script_pos' = script_pos + 1
    /\ UNCHANGED free_left

NextCoast == AscentArm \/ AscentLaunchPacket \/ CoastPacket

SpecCoast == InitAscent /\ [][NextCoast]_vars

-----------------------------------------------------------------------------
(* The processing loop (main.py, telemetry_processing_loop) with the       *)
(* command and session handlers that share its event loop                  *)

\* raw lines read in one behaviour of the pipeline specification
MaxPackets == 3
\* commands and session resets in one behaviour of the pipeline specification
MaxCommands == 2

\* the whole-second time field of a line stamped at vehicle time t
Seconds(t) == t \div Sec

\* an Armed line: z acceleration az (mg), position lat/lon, sats satellites
ArmedLine(sec, alt, az, lat, lon, sats) ==
    [framed |-> TRUE,
     fields |-> << Field(0), Field(sec), Field(alt), Field(0), Field(0), Field(az),
                   Field(0), Field(0), Field(0), Field(200), Field(-300), Field(400),
                   Field(lat), Field(lon), Field(sats), Field(25) >>]

\* a Recovery line
RecoveryLine(sec, alt, lat, lon, sats) ==
    [framed |-> TRUE,
     fields |-> << Field(0), Field(sec), Field(lat), Field(lon), Field(alt), Field(sats), Field(25) >>]

\* field i of the line replaced
WithField(line, i, f) == [line EXCEPT !.fields[i] = f]

\* The lines a stream delivers at second sec: 3 g of thrust with a GPS fix,
\* a Recovery packet without a fix (the simulator's dropout values), and four
\* damaged lines: brackets lost, ten fields, an undecodable and an oversized
\* acceleration field.
RawLines(sec) ==
    { ArmedLine(sec, 10, 3000, 327000000, -970000000, 8),
      RecoveryLine(sec, 5, 1, 1, 0),
      [ArmedLine(sec, 10, 3000, 327000000, -970000000, 8) EXCEPT !.framed = FALSE],
      [framed |-> TRUE, fields |-> [i \in 1..10 |-> Field(0)]],
      WithField(ArmedLine(sec, 10, 3000, 327000000, -970000000, 8), 6, Garbled),
      WithField(ArmedLine(sec, 10, 3000, 327000000, -970000000, 8), 6, Huge) }

\* vertical velocities the filter may report (0.1 m/s)
FilterVelocities == {50}

\* how far the wall clock advances while a handler runs
HandlerClockSteps == {1}

\* time between two lines of a stream
LineIntervals == {Sec}

\* whether the filter's numerical update of the sample may fail: it runs
\* only on samples with IMU data (kalman_filter.py lines 482-483)
FilterOutcomes(sample) == IF sample.accel # None /\ sample.gyro # None THEN BOOLEAN ELSE {TRUE}

\* The points at which the loop task is suspended: awaiting the serial read
\* or at the top of an iteration ("read"), in the simulator's sleep with the
\* generated line in hand ("held"), awaiting the broadcast ("broadcast").
\* At "filtered" the loop is between the filter stage and the event stage of
\* IntegratedTelemetryProcessor.process_telemetry, which has no await.
AwaitPoints == {"read", "held", "broadcast"}

\* Mutant: a handler may run wherever the loop is.
HandlerMayRun_anywhere(pc) == TRUE

\* the handlers are coroutines of the loop's own event loop: one runs only
\* while the loop task is suspended
HandlerMayRun(pc) == pc \in AwaitPoints

\* Mutant: the broadcast is started and not awaited.
LoopAfterBroadcastCall_notAwaited == "read"

\* main.py line 80: the loop awaits broadcast_telemetry
LoopAfterBroadcastCall == "broadcast"

\* Mutant: the packet count survives the reset.
ResetProcessorsOf_keepCount(p, t) ==
    [kalman |-> NewKalmanFilterProcessor, det |-> NewDetector(t), packet_count |-> p.packet_count]

\* IntegratedTelemetryProcessor.reset_processors on the processor p
ResetProcessorsOf(p, t) ==
    [kalman |-> NewKalmanFilterProcessor, det |-> NewDetector(t), packet_count |-> 0]

\* Mutant: a rejected packet is still counted by the validator.
AfterRejection_validated(v) == [v EXCEPT !.total_packets = @ + 1]

\* main.py lines 64-66: a rejected packet ends the iteration before the
\* validator is reached
AfterRejection(v) == v

InitPipeline ==
    /\ now = WallStart
    /\ dev_ts = WallStart + 2 * Sec
    /\ det = NewDetector(WallStart)
    /\ returned = <<>>
    /\ lastOp = "init"
    /\ last_cmd = "none"
    /\ script_pos = 0
    /\ free_left = MaxCommands
    /\ parser = NewParser
    /\ validator = NewValidator
    /\ kalman = NewKalmanFilterProcessor
    /\ packet_count = 0
    /\ loop_pc = "read"
    /\ in_hand = None
    /\ logged = <<>>
    /\ broadcasting = <<>>
    /\ published = <<>>
    /\ ws = NewWebSocketManager

\* main.py lines 62-74, up to the return of the filter stage: parse, and for
\* a parsed sample validate, count and filter
ParseAndFilter(line) ==
    LET r == ParseTelemetry(parser, line)
    IN  /\ parser' = r.parser
        /\ IF r.sample = None
           THEN /\ validator' = AfterRejection(validator)
                /\ loop_pc' = "read"
                /\ in_hand' = None
                /\ lastOp' = "rejected"
                /\ UNCHANGED <<kalman, packet_count>>
           ELSE /\ validator' = ValidatePacket(validator, r.sample[1])
                /\ packet_count' = packet_count + 1
                /\ \E ok \in FilterOutcomes(r.sample[1]), v \in FilterVelocities :
                      LET k == KalmanProcessTelemetry(kalman, WithQuality(r.sample[1]), ok, v)
                      IN  /\ kalman' = k.kf
                          /\ in_hand' = Some(k.telemetry)
                /\ loop_pc' = "filtered"
                /\ lastOp' = "filtered"
        /\ UNCHANGED <<det, returned, logged, broadcasting, published, now, free_left, ws>>

\* lines 48-50: the simulator generated a line; the loop sleeps 0.1 s
SimulatorGenerate ==
    /\ loop_pc = "read"
    /\ script_pos < MaxPackets
    /\ \E dt \in LineIntervals :
          /\ dev_ts' = dev_ts + dt
          /\ \E line \in RawLines(Seconds(dev_ts + dt)) : in_hand' = Some(line)
    /\ loop_pc' = "held"
    /\ lastOp' = "generated"
    /\ script_pos' = script_pos + 1
    /\ UNCHANGED <<det, returned, now, last_cmd, free_left, parser, validator, kalman,
                   packet_count, logged, broadcasting, published, ws>>

\* the sleep is over: the line in hand is parsed
SimulatorResume ==
    /\ loop_pc = "held"
    /\ ParseAndFilter(in_hand[1])
    /\ UNCHANGED <<dev_ts, script_pos, last_cmd>>

\* line 56: the serial read returned a line, which is parsed at once
SerialRead ==
    /\ loop_pc = "read"
    /\ script_pos < MaxPackets
    /\ \E dt \in LineIntervals :
          /\ dev_ts' = dev_ts + dt
          /\ \E line \in RawLines(Seconds(dev_ts + dt)) : ParseAndFilter(line)
    /\ script_pos' = script_pos + 1
    /\ UNCHANGED last_cmd

\* integrated_processor.py lines 31-48 and main.py lines 77-80: the event
\* stage, the logger, and the broadcast, which returns at once without clients
DetectLogBroadcast ==
    /\ loop_pc = "filtered"
    /\ LET e == EventStage(det, packet_count, in_hand[1])
       IN  /\ det' = e.d
           /\ returned' = e.events
           /\ lastOp' = e.outcome
           /\ logged' = Append(logged, e.telemetry)
           /\ \/ /\ published' = Append(published, e.telemetry)
                 /\ loop_pc' = "read"
                 /\ UNCHANGED broadcasting
              \/ /\ broadcasting' = Append(broadcasting, e.telemetry)
                 /\ loop_pc' = LoopAfterBroadcastCall
                 /\ UNCHANGED published
    /\ in_hand' = None
    /\ UNCHANGED <<now, dev_ts, last_cmd, script_pos, free_left, parser, validator, kalman, packet_count, ws>>

\* broadcast_telemetry has sent the record to the clients
BroadcastDone ==
    /\ broadcasting # <<>>
    /\ published' = Append(published, Head(broadcasting))
    /\ broadcasting' = Tail(broadcasting)
    /\ loop_pc' = IF loop_pc = "broadcast" THEN "read" ELSE loop_pc
    /\ lastOp' = "published"
    /\ UNCHANGED <<det, returned, now, dev_ts, last_cmd, script_pos, free_left, parser, validator,
                   kalman, packet_count, in_hand, logged, ws>>

\* websocket_endpoint / send_command_http after a successful ARM
PipelineArm ==
    /\ HandlerMayRun(loop_pc)
    /\ free_left > 0
    /\ \E d \in HandlerClockSteps :
          /\ det' = ArmSystem(det, now, now + d)
          /\ now' = now + d
    /\ free_left' = free_left - 1
    /\ lastOp' = "arm"
    /\ last_cmd' = "arm"
    /\ UNCHANGED <<dev_ts, returned, script_pos, parser, validator, kalman, packet_count,
                   loop_pc, in_hand, logged, broadcasting, published, ws>>

\* the same after a successful DISARM
PipelineDisarm ==
    /\ HandlerMayRun(loop_pc)
    /\ free_left > 0
    /\ \E d \in HandlerClockSteps :
          /\ det' = DisarmSystem(det, now + d)
          /\ now' = now + d
    /\ free_left' = free_left - 1
    /\ lastOp' = "disarm"
    /\ last_cmd' = "disarm"
    /\ UNCHANGED <<dev_ts, returned, script_pos, parser, validator, kalman, packet_count,
                   loop_pc, in_hand, logged, broadcasting, published, ws>>

\* start_simulator, reset_simulator_state and open_serial_port_api, from the
\* switch to the new stream to reset_processors: no await in between
PipelineReset ==
    /\ HandlerMayRun(loop_pc)
    /\ free_left > 0
    /\ \E d \in HandlerClockSteps :
          LET p == ResetProcessorsOf([kalman |-> kalman, det |-> det, packet_count |-> packet_count], now + d)
          IN  /\ det' = p.det
              /\ kalman' = p.kalman
              /\ packet_count' = p.packet_count
              /\ now' = now + d
    /\ free_left' = free_left - 1
    /\ lastOp' = "reset"
    /\ last_cmd' = "reset"
    /\ UNCHANGED <<dev_ts, returned, script_pos, parser, validator,
                   loop_pc, in_hand, logged, broadcasting, published, ws>>

NextPipeline ==
    \/ SimulatorGenerate \/ SimulatorResume \/ SerialRead \/ DetectLogBroadcast \/ BroadcastDone
    \/ PipelineArm \/ PipelineDisarm \/ PipelineReset

SpecPipeline == InitPipeline /\ [][NextPipeline]_vars

-----------------------------------------------------------------------------
(* A command on the serial port: execute_command sends it and polls        *)
(* read_packet for the response while the loop polls the same reader for   *)
(* telemetry.  A line that arrives goes to whichever of the two coroutines *)
(* is in readline at that moment; the other one's read_packet returns None *)
(* (timeout, or the reader's RuntimeError for a second waiter, caught at   *)
(* serial_manager.py line 102) and it sleeps before it polls again.        *)
(* last_cmd is where the command stands: "none", "sent" (the handler polls *)
(* for the response), "ack_parsed" (the loop took the response, the        *)
(* handler still polls), "arm" (the handler took it), "timeout".           *)
(* script_pos counts the telemetry lines that arrived.                     *)

\* websocket_endpoint line 170 / execute_command lines 53-62: ARM is written
\* to the port and the handler starts to poll
CommandSend ==
    /\ HandlerMayRun(loop_pc)
    /\ last_cmd = "none"
    /\ last_cmd' = "sent"
    /\ lastOp' = "command_sent"
    /\ UNCHANGED <<det, now, dev_ts, returned, script_pos, free_left>>
    /\ UNCHANGED pipeVars

\* _wait_for_response lines 78-96: the handler's read_packet returned a line.
\* A telemetry line is neither ACK nor NAK and is dropped; the ACK ends the
\* wait with success and websocket_endpoint arms the processor (line 174).
CommandRead ==
    /\ HandlerMayRun(loop_pc)
    /\ \/ /\ last_cmd \in {"sent", "ack_parsed"}
          /\ script_pos < MaxPackets
          /\ \E dt \in LineIntervals : dev_ts' = dev_ts + dt
          /\ script_pos' = script_pos + 1
          /\ lastOp' = "line_dropped"
          /\ UNCHANGED <<det, now, last_cmd>>
       \/ /\ last_cmd = "sent"
          /\ \E d \in HandlerClockSteps :
                /\ det' = ArmSystem(det, now, now + d)
                /\ now' = now + d
          /\ last_cmd' = "arm"
          /\ lastOp' = "arm"
          /\ UNCHANGED <<dev_ts, script_pos>>
    /\ UNCHANGED <<returned, free_left>>
    /\ UNCHANGED pipeVars

\* main.py lines 56-66: the loop's read_packet returned the response line
\* (ACK:ARM, not a framed telemetry line), which the parser rejects
SerialReadAck ==
    /\ loop_pc = "read"
    /\ last_cmd = "sent"
    /\ ParseAndFilter([framed |-> FALSE, fields |-> <<>>])
    /\ last_cmd' = "ack_parsed"
    /\ UNCHANGED <<dev_ts, script_pos>>

\* _wait_for_response lines 100-105: five seconds have passed without a line
\* that starts with ACK or NAK
CommandTimeout ==
    /\ HandlerMayRun(loop_pc)
    /\ last_cmd = "ack_parsed"
    /\ last_cmd' = "timeout"
    /\ lastOp' = "command_timeout"
    /\ UNCHANGED <<det, now, dev_ts, returned, script_pos, free_left>>
    /\ UNCHANGED pipeVars

NextCommand ==
    \/ SerialRead \/ DetectLogBroadcast \/ BroadcastDone
    \/ CommandSend \/ CommandRead \/ SerialReadAck \/ CommandTimeout

SpecCommand == InitPipeline /\ [][NextCommand]_vars

-----------------------------------------------------------------------------
(* The broadcast (communication/websocket_manager.py): the loop awaits     *)
(* broadcast_telemetry, which awaits one send_json per client, while the   *)
(* websocket endpoints of the same event loop accept and drop clients.     *)
(* script_pos counts the broadcasts, free_left the connects and            *)
(* disconnects still to come.                                              *)

Clients == {"c1", "c2", "c3"}

\* websocket_endpoint line 161, connect lines 15-19: the accept is awaited,
\* then the client is added.  A client added while a for loop over the set
\* is suspended may or may not lie ahead of the iterator.
WsConnect ==
    /\ free_left > 0
    /\ \E c \in Clients \ ws.clients :
          \E ahead \in (IF ws.pc = "sending" THEN BOOLEAN ELSE {FALSE}) :
             ws' = [ws EXCEPT !.clients = @ \cup {c},
                              !.todo = IF ahead THEN @ \cup {c} ELSE @]
    /\ free_left' = free_left - 1
    /\ lastOp' = "connect"
    /\ UNCHANGED <<det, now, dev_ts, returned, last_cmd, script_pos, parser, validator, kalman,
                   packet_count, loop_pc, in_hand, logged, broadcasting, published>>

\* websocket_endpoint lines 183-188, disconnect lines 21-24: the client is
\* discarded from the set
WsDisconnect ==
    /\ free_left > 0
    /\ \E c \in ws.clients :
          ws' = [ws EXCEPT !.clients = @ \ {c},
                           !.todo = @ \ {c},
                           !.gone = IF ws.pc = "sending" THEN @ \cup {c} ELSE @]
    /\ free_left' = free_left - 1
    /\ lastOp' = "disconnect"
    /\ UNCHANGED <<det, now, dev_ts, returned, last_cmd, script_pos, parser, validator, kalman,
                   packet_count, loop_pc, in_hand, logged, broadcasting, published>>

\* broadcast_telemetry lines 26-41: called with the next record; without
\* clients it returns at once, else the for loop takes its first client and
\* the call is suspended in send_json
BroadcastStart ==
    /\ ws.pc = "idle"
    /\ script_pos < MaxPackets
    /\ script_pos' = script_pos + 1
    /\ IF ws.clients = {}
       THEN ws' = [ws EXCEPT !.record = script_pos + 1, !.outcome = "done", !.snapshot = {},
                             !.gone = {}, !.got = {}, !.disconnected = {}]
       ELSE \E c \in ws.clients :
               ws' = [ws EXCEPT !.pc = "sending", !.size = Cardinality(ws.clients),
                                !.todo = ws.clients \ {c}, !.current = Some(c),
                                !.disconnected = {}, !.record = script_pos + 1,
                                !.outcome = "none", !.snapshot = ws.clients,
                                !.gone = {}, !.got = {}]
    /\ lastOp' = "broadcast"
    /\ UNCHANGED <<det, now, dev_ts, returned, last_cmd, free_left, parser, validator, kalman,
                   packet_count, loop_pc, in_hand, logged, broadcasting, published>>

\* lines 39-48: the send_json returned or raised; the for loop asks the set
\* iterator for the next client, which raises RuntimeError (outside the try)
\* when the size of the set is not the one the iteration started with; after
\* the last client the failed ones are discarded
BroadcastSend ==
    /\ ws.pc = "sending"
    /\ \E ok \in (IF ws.current[1] \in ws.clients THEN BOOLEAN ELSE {FALSE}) :
          LET got == IF ok THEN ws.got \cup {ws.current[1]} ELSE ws.got
              disconnected == IF ok THEN ws.disconnected ELSE ws.disconnected \cup {ws.current[1]}
          IN  IF Cardinality(ws.clients) # ws.size
              THEN ws' = [ws EXCEPT !.pc = "idle", !.current = None, !.todo = {}, !.got = got,
                                    !.disconnected = disconnected, !.outcome = "raised"]
              ELSE IF ws.todo = {}
              THEN ws' = [ws EXCEPT !.pc = "idle", !.current = None, !.got = got,
                                    !.disconnected = disconnected,
                                    !.clients = @ \ disconnected, !.outcome = "done"]
              ELSE \E c \in ws.todo :
                      ws' = [ws EXCEPT !.current = Some(c), !.todo = @ \ {c}, !.got = got,
                                       !.disconnected = disconnected]
    /\ lastOp' = "sent"
    /\ UNCHANGED <<det, now, dev_ts, returned, last_cmd, script_pos, free_left, parser, validator,
                   kalman, packet_count, loop_pc, in_hand, logged, broadcasting, published>>

NextBroadcast == WsConnect \/ WsDisconnect \/ BroadcastStart \/ BroadcastSend

SpecBroadcast == InitPipeline /\ [][NextBroadcast]_vars

-----------------------------------------------------------------------------
(* The filter on its own: ExtendedKalmanFilter.process_telemetry called    *)
(* with records whose timestamps step forwards, stand still or go back     *)

\* records filtered in one behaviour of the filter specification
MaxSamples == 3

\* timestamp differences between consecutive records: one second back, none,
\* 0.1 s, exactly 1.0 s, just over 1.0 s
SampleIntervals == {-Sec, 0, DS, Sec, Sec + 1}

\* The records stamped t: from an Armed packet with and without a GPS fix,
\* from a Recovery packet with a fix (no IMU keys), one carrying the
\* magnetometer keys the filter reads, and an Armed and a Recovery record
\* whose altitude field read "nan" (float() accepts it).
Records(t) ==
    { Measurement(t, TRUE, TRUE, FALSE, TRUE),
      Measurement(t, TRUE, FALSE, FALSE, TRUE),
      Measurement(t, FALSE, TRUE, FALSE, TRUE),
      Measurement(t, TRUE, TRUE, TRUE, TRUE),
      Measurement(t, TRUE, FALSE, FALSE, FALSE),
      Measurement(t, FALSE, TRUE, FALSE, FALSE) }

\* lines 507-511 for a record whose 'timestamp' datetime.fromisoformat does
\* not accept: line 423 raises before the filter is touched
FilterTimestampError(kf) == [kf EXCEPT !.last_update_time = None]

InitFilter ==
    /\ now = WallStart
    /\ dev_ts = WallStart
    /\ det = NewDetector(WallStart)
    /\ returned = <<>>
    /\ lastOp = "init"
    /\ last_cmd = "none"
    /\ script_pos = 0
    /\ free_left = MaxCommands
    /\ parser = NewParser
    /\ validator = NewValidator
    /\ kalman = NewExtendedKalmanFilter
    /\ packet_count = 0
    /\ loop_pc = "read"
    /\ in_hand = None
    /\ logged = <<>>
    /\ broadcasting = <<>>
    /\ published = <<>>
    /\ ws = NewWebSocketManager

\* a record reaches process_telemetry; in_hand keeps the call: the filter
\* before it, the measurement, the time step used and the health reported
FilterSample ==
    /\ script_pos < MaxSamples
    /\ \E d \in SampleIntervals :
          \E m \in Records(dev_ts + d) :
             \E r \in {FilterTelemetry(kalman, m)} :
                /\ kalman' = r.kf
                /\ in_hand' = Some([before |-> kalman, m |-> m, dt |-> r.dt,
                                    filter_health |-> r.filter_health])
                /\ dev_ts' = dev_ts + d
    /\ script_pos' = script_pos + 1
    /\ lastOp' = "filtered"
    /\ UNCHANGED <<now, det, returned, last_cmd, free_left, parser, validator, packet_count,
                   loop_pc, logged, broadcasting, published, ws>>

\* a record without a usable timestamp reaches process_telemetry
FilterBadTimestamp ==
    /\ script_pos < MaxSamples
    /\ kalman' = FilterTimestampError(kalman)
    /\ in_hand' = None
    /\ script_pos' = script_pos + 1
    /\ lastOp' = "filter_error"
    /\ UNCHANGED <<now, dev_ts, det, returned, last_cmd, free_left, parser, validator,
                   packet_count, loop_pc, logged, broadcasting, published, ws>>

NextFilter == FilterSample \/ FilterBadTimestamp

SpecFilter == InitFilter /\ [][NextFilter]_vars

-----------------------------------------------------------------------------
(* The validator on its own: lines whose position and satellite count lie  *)
(* on and next to the limits of _validate_gps                              *)

\* Armed lines with latitudes (1e-7 deg) zero, next to and on 0.00001 deg,
\* mid-range, on and beyond 90 deg, longitudes likewise around 0.00001 deg
\* and 180 deg, and 0, 3, 4 or 5 satellites; Recovery lines with some of them
GpsLines ==
    { ArmedLine(Seconds(WallStart), 10, 1000, lat, lon, sats) :
        lat \in {0, 99, 100, -99, 327000000, 900000000, 900000001, -900000000, -900000001},
        lon \in {0, 99, 100, -970000000, 1800000000, 1800000001, -1800000000, -1800000001},
        sats \in {0, 3, 4, 5} }
    \cup { RecoveryLine(Seconds(WallStart), 10, lat, lon, sats) :
        lat \in {0, 100, 327000000}, lon \in {99, 100, -970000000}, sats \in {3, 4} }

InitGps ==
    /\ now = WallStart
    /\ dev_ts = WallStart
    /\ det = NewDetector(WallStart)
    /\ returned = <<>>
    /\ lastOp = "init"
    /\ last_cmd = "none"
    /\ script_pos = 0
    /\ free_left = MaxCommands
    /\ parser = NewParser
    /\ validator = NewValidator
    /\ kalman = NewKalmanFilterProcessor
    /\ packet_count = 0
    /\ loop_pc = "read"
    /\ in_hand \in {Some(line) : line \in GpsLines}
    /\ logged = <<>>
    /\ broadcasting = <<>>
    /\ published = <<>>
    /\ ws = NewWebSocketManager

\* main.py lines 62-70: the line in hand is parsed and validated
GpsValidate ==
    /\ lastOp = "init"
    /\ \E r \in {ParseTelemetry(parser, in_hand[1])} :
          /\ r.sample # None
          /\ parser' = r.parser
          /\ validator' = ValidatePacket(validator, r.sample[1])
          /\ in_hand' = Some(WithQuality(r.sample[1]))
    /\ lastOp' = "validated"
    /\ UNCHANGED <<now, dev_ts, det, returned, last_cmd, script_pos, free_left, kalman,
                   packet_count, loop_pc, logged, broadcasting, published, ws>>

NextGps == GpsValidate

SpecGps == InitGps /\ [][NextGps]_vars

-----------------------------------------------------------------------------
(* Properties of the event detector *)

\* the events of the list that enter the phase p
EventsInto(events, p) == {i \in DOMAIN events : events[i].phase_transition[2] = p}

\* the sum of the recorded phase durations
DurationSum(pd) == SumOver(pd, DOMAIN pd)

\* the timestamps of a phase history do not decrease
Monotone(history) == \A i \in 1..(Len(history) - 1) : history[i][1] <= history[i + 1][1]

\* C1: a packet or a disarm that changes the current phase appends exactly one
\* event, whose phase_transition is (phase before, phase after), and leaves the
\* earlier events as they were; one that keeps the phase leaves the list alone.
C1_OneEventPerPhaseChange ==
    [][lastOp' \in PacketOutcomes \cup {"disarm"} =>
          IF det'.current_phase # det.current_phase
          THEN /\ Len(det'.events) = Len(det.events) + 1
               /\ SubSeq(det'.events, 1, Len(det.events)) = det.events
               /\ Last(det'.events).phase_transition = <<det.current_phase, det'.current_phase>>
          ELSE det'.events = det.events]_vars

\* a whole flight was detected: nine events, the last one LANDING to LANDED
C1_Witness ==
    /\ lastOp = "processed"
    /\ Len(det.events) = 9
    /\ Last(det.events).phase_transition = <<"LANDING", "LANDED">>
    /\ returned = <<Last(det.events)>>

\* C2: within a session the event list never holds more than one transition
\* into APOGEE, and the once-only flag is set exactly when it holds one.
C2_ApogeeOnce ==
    /\ Cardinality(EventsInto(det.events, "APOGEE")) <= 1
    /\ det.apogee_event_triggered <=> EventsInto(det.events, "APOGEE") # {}

\* packets were processed after the apogee event and it is still the only one
C2_Witness ==
    /\ lastOp = "processed"
    /\ det.current_phase = "LANDED"
    /\ Cardinality(EventsInto(det.events, "APOGEE")) = 1
    /\ free_left = 0

\* C3: the phase history is monotone in timestamp in every reachable state.
C3_HistoryMonotone == Monotone(det.phase_history)

\* C4 as stated: after every processed packet the recorded phase durations sum
\* to the current mission time, to within one sample interval (0.1 s).
C4_SumWithinOneSample ==
    lastOp = "processed" =>
        Abs(DurationSum(det.stats.phase_durations) - det.current_mission_time_s) <= DS

\* C4, amended: the recorded durations are those of the phases already left;
\* after every processed packet their sum falls short of the current mission
\* time by exactly the time from the latest phase-history entry to the packet.
C4_SumLagsByCurrentPhase ==
    lastOp = "processed" =>
        det.current_mission_time_s - DurationSum(det.stats.phase_durations)
            = dev_ts - Last(det.phase_history)[1]

\* a packet processed in DESCENT, 0.1 s after the phase was entered
C4_Witness ==
    /\ lastOp = "processed"
    /\ det.current_phase = "DESCENT"
    /\ returned = <<>>
    /\ dev_ts - Last(det.phase_history)[1] = DS
    /\ DurationSum(det.stats.phase_durations) > 0

\* what the reset leaves and the arm transition does not touch: the sample
\* buffers, the predictor, the apogee window, prediction and flag, the maximum
\* altitude, the recorded times and the statistics other than the durations
ClearedByReset(d) ==
    /\ d.mission_time_samples = <<>>
    /\ d.accel_g_samples = <<>>
    /\ d.vertical_velocity_samples = <<>>
    /\ d.altitude_samples = <<>>
    /\ d.apogee_predictor = NewApogeePredictor
    /\ d.predicted_apogee_mission_time = None
    /\ d.apogee_window_start_time = None
    /\ d.apogee_window_end_time = None
    /\ ~d.apogee_event_triggered
    /\ d.max_altitude_m = 0
    /\ d.max_altitude_mission_time = None
    /\ d.launch_mission_time = None
    /\ d.burnout_mission_time = None
    /\ d.apogee_mission_time = None
    /\ d.landing_mission_time = None
    /\ d.current_mission_time_s = 0
    /\ [d.stats EXCEPT !.phase_durations = EmptyDict] = InitialStats

\* the phase is ARMED, the only event is IDLE to ARMED and the history is
\* [IDLE, ARMED]
ArmedViaIdle(d) ==
    /\ d.current_phase = "ARMED"
    /\ Len(d.events) = 1
    /\ d.events[1].phase_transition = <<"IDLE", "ARMED">>
    /\ Len(d.phase_history) = 2
    /\ d.phase_history[1][2] = "IDLE"
    /\ d.phase_history[2][2] = "ARMED"

\* C5 as stated: right after an arm the detector is ARMED via IDLE, everything
\* is cleared and the statistics are back to their initial values.
C5_ArmResetsAll ==
    lastOp = "arm" =>
        ArmedViaIdle(det) /\ ClearedByReset(det) /\ det.stats = InitialStats

\* C5, amended: right after an arm (in any phase, ARMED included) the detector
\* is ARMED via IDLE and everything is cleared, except that the statistics
\* already record a duration for IDLE: the time from the reset to the arm
\* transition, which is never positive.
C5_ArmResetsAllButIdleDuration ==
    lastOp = "arm" =>
        /\ ArmedViaIdle(det)
        /\ ClearedByReset(det)
        /\ DOMAIN det.stats.phase_durations = {"IDLE"}
        /\ det.stats.phase_durations["IDLE"] = det.phase_history[2][1] - det.phase_history[1][1]
        /\ det.stats.phase_durations["IDLE"] <= 0

\* a second arm, issued after the whole nominal flight was fed
C5_Witness ==
    /\ lastOp = "arm"
    /\ script_pos = Len(NominalFlight) + 1
    /\ free_left < MaxFree
    /\ det.current_phase = "ARMED"

\* C6: a disarm in a phase other than IDLE moves the detector to IDLE and
\* appends exactly one event, from the phase held before to IDLE; a disarm
\* while IDLE changes nothing.
C6_DisarmToIdle ==
    [][lastOp' = "disarm" =>
          IF det.current_phase # "IDLE"
          THEN /\ det'.current_phase = "IDLE"
               /\ Len(det'.events) = Len(det.events) + 1
               /\ SubSeq(det'.events, 1, Len(det.events)) = det.events
               /\ Last(det'.events).phase_transition = <<det.current_phase, "IDLE">>
          ELSE det' = det]_vars

\* a disarm issued in COAST
C6_Witness ==
    /\ lastOp = "disarm"
    /\ det.current_phase = "IDLE"
    /\ Len(det.events) = 6
    /\ Last(det.events).phase_transition = <<"COAST", "IDLE">>

\* C7: while the latest command is a disarm, no packet emits an event and the
\* phase stays IDLE.
C7_QuietAfterDisarm ==
    [][last_cmd = "disarm" /\ lastOp' \in PacketOutcomes =>
          /\ det.current_phase = "IDLE"
          /\ det'.current_phase = "IDLE"
          /\ returned' = <<>>
          /\ det'.events = det.events]_vars

\* a disarm in BOOST, and the rest of the flight's packets fed after it
C7_Witness ==
    /\ last_cmd = "disarm"
    /\ lastOp = "processed"
    /\ script_pos = Len(NominalFlight) + 1
    /\ det.current_phase = "IDLE"
    /\ Last(det.events).phase_transition = <<"BOOST", "IDLE">>

\* the edges of the chain ARMED, LAUNCH, BOOST, ..., LANDED
ChainEdges ==
    { <<"ARMED", "LAUNCH">>, <<"LAUNCH", "BOOST">>, <<"BOOST", "BURNOUT">>, <<"BURNOUT", "COAST">>,
      <<"COAST", "APOGEE">>, <<"APOGEE", "DESCENT">>, <<"DESCENT", "LANDING">>, <<"LANDING", "LANDED">> }

LastThreeAre(d, a) ==
    /\ Len(d.accel_g_samples) >= launch_min_samples
    /\ \A i \in 1..launch_min_samples : LastN(d.accel_g_samples, launch_min_samples)[i] = a

\* C9 as stated: with the detector ARMED, three samples of exactly 2.0 g
\* trigger the LAUNCH transition and three samples of 1.99 g do not.
C9_LaunchAtThreshold ==
    [][det.current_phase = "ARMED" /\ lastOp' = "processed" =>
          /\ LastThreeAre(det', 200) => det'.current_phase = "LAUNCH"
          /\ LastThreeAre(det', 199) => det'.current_phase = "ARMED"]_vars

\* C9, amended: with the detector ARMED, a packet triggers the LAUNCH
\* transition exactly when it completes three samples that all exceed 2.0 g:
\* three samples of 2.01 g trigger it, three of exactly 2.0 g or of 1.99 g do not.
C9_LaunchAboveThreshold ==
    [][det.current_phase = "ARMED" /\ lastOp' = "processed" =>
          /\ LastThreeAre(det', 201) => det'.current_phase = "LAUNCH"
          /\ LastThreeAre(det', 200) => det'.current_phase = "ARMED"
          /\ LastThreeAre(det', 199) => det'.current_phase = "ARMED"
          /\ det'.current_phase = "LAUNCH" <=>
                /\ Len(det'.accel_g_samples) >= launch_min_samples
                /\ \A i \in 1..launch_min_samples :
                      LastN(det'.accel_g_samples, launch_min_samples)[i] > 200]_vars

\* three samples of exactly 2.0 g were fed and the detector is still ARMED
C9_Witness ==
    /\ lastOp = "processed"
    /\ det.current_phase = "ARMED"
    /\ det.accel_g_samples = <<200, 200, 200>>

\* C10: in COAST with a prediction window set and the apogee not yet
\* triggered, a processed packet more than 2 s past the window end with a
\* vertical velocity below -1.5 m/s emits the apogee event with confidence 0.5,
\* within_window = false in its data, and records as apogee time the mission
\* time of the maximum altitude.
C10_LateFallback ==
    [][/\ det.current_phase = "COAST"
       /\ Truthy(det.apogee_window_end_time)
       /\ ~det.apogee_event_triggered
       /\ lastOp' = "processed"
       /\ det'.current_mission_time_s > det.apogee_window_end_time[1] + 2 * Sec
       /\ Last(det'.vertical_velocity_samples) < -15
       =>
       /\ det'.current_phase = "APOGEE"
       /\ Len(returned') = 1
       /\ returned'[1].phase_transition = <<"COAST", "APOGEE">>
       /\ returned'[1].confidence = 50
       /\ "within_window" \in DOMAIN returned'[1].data
       /\ returned'[1].data.within_window = FALSE
       /\ det'.apogee_mission_time = det'.max_altitude_mission_time]_vars

\* the deque s2 is the deque s after one append with capacity m
AppendedOne(s, s2, m) == s2 # <<>> /\ s2 = Push(s, Last(s2), m)

\* C23: the acceleration, vertical-velocity and altitude buffers never hold
\* more than 20, 50 and 100 samples, and every packet with a valid timestamp
\* appends exactly one sample to each of them, in every phase, the oldest
\* sample being dropped when the buffer is full.
C23_BuffersAppend ==
    [][/\ Len(det'.accel_g_samples) <= accel_g_maxlen
       /\ Len(det'.vertical_velocity_samples) <= vertical_velocity_maxlen
       /\ Len(det'.altitude_samples) <= altitude_maxlen
       /\ lastOp' \in {"processed", "raised"} =>
             /\ AppendedOne(det.accel_g_samples, det'.accel_g_samples, accel_g_maxlen)
             /\ AppendedOne(det.vertical_velocity_samples, det'.vertical_velocity_samples,
                            vertical_velocity_maxlen)
             /\ AppendedOne(det.altitude_samples, det'.altitude_samples, altitude_maxlen)]_vars

\* C26: a packet processed in ARMED causes the transition to LAUNCH if and
\* only if the buffer holds at least 3 acceleration samples, this packet's
\* included, and the latest 3 are all above 2.0 g; an arm empties the buffer,
\* so that samples received before it never count.
C26_LaunchIff ==
    [][/\ lastOp' = "arm" => det'.accel_g_samples = <<>>
       /\ (det.current_phase = "ARMED" /\ lastOp' = "processed") =>
             (det'.current_phase = "LAUNCH" <=>
                 /\ Len(det'.accel_g_samples) >= 3
                 /\ \A i \in 0..2 :
                       det'.accel_g_samples[Len(det'.accel_g_samples) - i] > 200)]_vars

\* launch on the fourth packet, the third after the arm: the sample received
\* before the arm did not count
C26_Witness ==
    /\ det.current_phase = "LAUNCH"
    /\ lastOp = "processed"
    /\ script_pos = 4
    /\ Len(det.accel_g_samples) = 3
    /\ returned # <<>>

\* the acceleration of the packet just processed
PacketAccel(d) == Last(d.accel_g_samples)

\* C27: a packet processed in LAUNCH causes the transition to BOOST exactly
\* when at least 0.3 s of mission time have passed since the launch
\* transition and the packet's acceleration is above 1.6 g.
C27_BoostIff ==
    [][(det.current_phase = "LAUNCH" /\ lastOp' = "processed") =>
          (det'.current_phase = "BOOST" <=>
              /\ det'.current_mission_time_s - det.launch_mission_time[1] >= 3 * DS
              /\ PacketAccel(det') > 160)]_vars

\* C28: after a processed packet the detector is not in LAUNCH with more
\* than 2.0 s of mission time passed since the launch transition.
C28_LeavesLaunch ==
    ~(/\ lastOp = "processed"
      /\ det.current_phase = "LAUNCH"
      /\ det.current_mission_time_s - det.launch_mission_time[1] > 2 * Sec)

\* C29: a packet processed in BURNOUT whose mission time is at least 0.2 s
\* after the burnout transition causes the transition to COAST.
C29_ReachesCoast ==
    [][(/\ det.current_phase = "BURNOUT"
        /\ lastOp' = "processed"
        /\ det'.current_mission_time_s - det.burnout_mission_time[1] >= 2 * DS)
          => det'.current_phase = "COAST"]_vars

-----------------------------------------------------------------------------
(* Properties of the pipeline *)

\* C11: an ARM re-initialises the session: right after the command the
\* Kalman filter is as constructed (no last update time, state and covariance
\* at their initial values), so that the next packet is its first sample.
C11_ArmResetsFilter ==
    lastOp = "arm" => kalman = NewExtendedKalmanFilter

PacketIds(records) == [i \in 1..Len(records) |-> records[i].sample.packet_id]

\* ids strictly increasing along the list
Increasing(ids) == \A i \in 1..Len(ids) : \A j \in 1..Len(ids) : i < j => ids[i] < ids[j]

C14_CommandsBetweenPackets ==
    [][loop_pc = "filtered" =>
          /\ free_left' = free_left
          /\ last_cmd' = last_cmd
          /\ det' = EventStage(det, packet_count, in_hand[1]).d]_vars

\* an ARM that took effect while the loop awaited the broadcast of a record,
\* after both stages of that packet
C14_Witness ==
    /\ lastOp = "arm"
    /\ loop_pc = "broadcast"
    /\ broadcasting # <<>>
    /\ broadcasting[1].flight_phase = "IDLE"
    /\ det.current_phase = "ARMED"

\* C15: every parse_telemetry call moves exactly one of the parser's two
\* counters, by one: the success counter when a sample is returned, the
\* error counter when the packet is rejected.
C15_OneCounterPerCall ==
    [][/\ lastOp' = "filtered" =>
            /\ parser'.packet_count = parser.packet_count + 1
            /\ parser'.error_count = parser.error_count
       /\ lastOp' = "rejected" =>
            /\ parser'.error_count = parser.error_count + 1
            /\ parser'.packet_count = parser.packet_count
       /\ lastOp' \notin {"filtered", "rejected"} => parser' = parser]_vars

\* both kinds of call have happened: two samples returned, one line rejected
C15_Witness ==
    /\ lastOp \in {"filtered", "rejected"}
    /\ parser.packet_count = 2
    /\ parser.error_count = 1

\* C16: a rejected raw packet leaves everything downstream as it was: the
\* validator statistics, the filter, the detector, the processor's packet
\* count; nothing is logged or broadcast for it, and the loop is back at the
\* top of its iteration for the next packet.
C16_RejectedLeavesDownstream ==
    [][lastOp' = "rejected" =>
          /\ validator' = validator
          /\ kalman' = kalman
          /\ det' = det
          /\ packet_count' = packet_count
          /\ logged' = logged
          /\ broadcasting' = broadcasting
          /\ published' = published
          /\ loop_pc' = "read"
          /\ in_hand' = None]_vars

\* a line rejected in an armed session that has processed one packet, with
\* another line still to come
C16_Witness ==
    /\ lastOp = "rejected"
    /\ det.current_phase = "ARMED"
    /\ packet_count = 1
    /\ validator.total_packets = 1
    /\ kalman.last_update_time # None
    /\ Len(logged) = 1
    /\ script_pos < MaxPackets

\* C17: the parsed samples carry the packet ids 0, 1, 2, ... in parse order,
\* Armed and Recovery alike, whatever rejected lines came in between.
C17_ConsecutiveIds ==
    /\ \A i \in 1..Len(logged) : logged[i].sample.packet_id = i - 1
    /\ loop_pc = "filtered" => in_hand[1].sample.packet_id = Len(logged)

\* an Armed and a Recovery sample with a rejected line among them
C17_Witness ==
    /\ Len(logged) = 2
    /\ parser.error_count = 1
    /\ logged[1].sample.mode = "ARMED"
    /\ logged[2].sample.mode = "RECOVERY"
    /\ logged[2].sample.packet_id = 1

\* a line that parses and a line of ten fields
HistoryLines ==
    { ArmedLine(Seconds(WallStart), 10, 3000, 327000000, -970000000, 8),
      [framed |-> TRUE, fields |-> [i \in 1..10 |-> Field(0)]] }

\* the lines a parser may have parsed before: up to two of them
Histories ==
    {<<>>} \cup {<<a>> : a \in HistoryLines} \cup {<<a, b>> : a \in HistoryLines, b \in HistoryLines}

\* a new parser after it has parsed the lines of h
ParserAfter(h) ==
    IF h = <<>> THEN NewParser
    ELSE IF Len(h) = 1 THEN ParseTelemetry(NewParser, h[1]).parser
    ELSE ParseTelemetry(ParseTelemetry(NewParser, h[1]).parser, h[2]).parser

\* two results of parse_telemetry agree in every field but the packet id
SameButPacketId(a, b) ==
    \/ a = None /\ b = None
    \/ a # None /\ b # None /\ [a[1] EXCEPT !.packet_id = 0] = [b[1] EXCEPT !.packet_id = 0]

\* C18 as stated: the sample returned for a line depends on the line alone;
\* a parser with any other history returns an equal sample.
C18_SameSample ==
    loop_pc = "held" =>
        \A h \in Histories :
            ParseTelemetry(parser, in_hand[1]).sample = ParseTelemetry(ParserAfter(h), in_hand[1]).sample

\* C18: two parsers with different histories return, for the same line,
\* samples equal in every field except the packet id, which is the number of
\* samples the parser returned before.
C18_SameSampleButId ==
    loop_pc = "held" =>
        /\ \A h \in Histories :
              SameButPacketId(ParseTelemetry(parser, in_hand[1]).sample,
                              ParseTelemetry(ParserAfter(h), in_hand[1]).sample)
        /\ ParseTelemetry(parser, in_hand[1]).sample # None =>
              ParseTelemetry(parser, in_hand[1]).sample[1].packet_id = parser.packet_count

\* a parser that has returned one sample and rejected one line holds a line
\* it will parse
C18_Witness ==
    /\ loop_pc = "held"
    /\ parser.packet_count = 1
    /\ parser.error_count = 1
    /\ ParseTelemetry(parser, in_hand[1]).sample # None

\* C19: a sample whose timestamp is invalid or missing is skipped by the
\* event detector without any state change (phase, history, events, mission
\* time, the sample buffers, maximum altitude and statistics are all fields
\* of det), and no event is returned.
C19_SkippedSampleChangesNothing ==
    [][lastOp' = "skipped" => det' = det /\ returned' = <<>>]_vars

\* a sample skipped in flight, with the buffers filled and events recorded
C19_Witness ==
    /\ lastOp = "skipped"
    /\ det.current_phase = "BOOST"
    /\ Len(det.altitude_samples) = 4
    /\ Len(det.events) >= 3

\* C20: every record the pipeline emits carries flight_phase, mission_time_s,
\* flight_summary and an events list, whether or not the packet caused a
\* transition and whether or not the filter stage failed.
C20_RecordComplete ==
    \A i \in 1..Len(logged) :
        {"flight_phase", "mission_time_s", "flight_summary", "events"} \subseteq logged[i].keys


-----------------------------------------------------------------------------
(* Properties of the filter *)

\* the call in_hand keeps
TheCall == in_hand[1]

\* C21: the time step used for a record is 0.1 s on the first sample of a
\* session and when the difference to the previous timestamp is <= 0 or
\* > 1.0 s, the difference otherwise, hence always in (0, 1.0] s; and the
\* last update time becomes the record's timestamp, even when it goes back.
C21_TimeStep ==
    lastOp = "filtered" =>
        /\ TheCall.dt > 0 /\ TheCall.dt <= Sec
        /\ TheCall.before.last_update_time = None => TheCall.dt = DS
        /\ TheCall.before.last_update_time # None =>
              LET diff == TheCall.m.timestamp - TheCall.before.last_update_time[1]
              IN  /\ (diff <= 0 \/ diff > Sec) => TheCall.dt = DS
                  /\ (diff > 0 /\ diff <= Sec) => TheCall.dt = diff
        /\ kalman.last_update_time = Some(TheCall.m.timestamp)

\* a record stamped one second before its predecessor was filtered with
\* 0.1 s, after one stamped exactly 1.0 s after its own predecessor
C21_Witness ==
    /\ lastOp = "filtered"
    /\ TheCall.before.last_update_time # None
    /\ TheCall.m.timestamp - TheCall.before.last_update_time[1] = -Sec
    /\ TheCall.dt = DS
    /\ kalman.last_update_time[1] < TheCall.before.last_update_time[1]


\* C22: when the health report after a record says that state or covariance
\* is not finite, the next sample re-initialises the filter, so that after a
\* next sample with finite values state and covariance are finite again.
C22_NonFiniteReinitialised ==
    (/\ lastOp = "filtered"
     /\ ~(CheckFilterHealth(TheCall.before).state_finite
            /\ CheckFilterHealth(TheCall.before).P_finite)
     /\ TheCall.m.altitude_finite)
        => /\ TheCall.filter_health.state_finite
           /\ TheCall.filter_health.P_finite


-----------------------------------------------------------------------------
(* Properties of the validator *)

\* degrees in the unit of the position fields
Deg(x) == x * 10000000

\* C24: for a sample with latitude and longitude, gps_valid is true exactly
\* when latitude and longitude are not both closer than 0.00001 deg to zero,
\* the latitude is in [-90, 90], the longitude in [-180, 180] and there are
\* at least 4 satellites; with everything else in range 4 satellites are
\* valid and 3 are not.
C24_GpsValid ==
    lastOp = "validated" =>
        LET s == in_hand[1].sample
            in_range == /\ ~(Abs(s.latitude) < 100 /\ Abs(s.longitude) < 100)
                        /\ -Deg(90) <= s.latitude /\ s.latitude <= Deg(90)
                        /\ -Deg(180) <= s.longitude /\ s.longitude <= Deg(180)
        IN  /\ in_hand[1].quality.gps_valid <=> (in_range /\ s.gps_satellites >= 4)
            /\ (in_range /\ s.gps_satellites = 4) => in_hand[1].quality.gps_valid
            /\ (in_range /\ s.gps_satellites = 3) => ~in_hand[1].quality.gps_valid

\* a fix on the limits (90 deg, -180 deg) with exactly 4 satellites was
\* validated and found valid
C24_Witness ==
    /\ lastOp = "validated"
    /\ in_hand[1].sample.latitude = Deg(90)
    /\ in_hand[1].sample.longitude = -Deg(180)
    /\ in_hand[1].sample.gps_satellites = 4
    /\ in_hand[1].quality.gps_valid
    /\ validator.total_packets = 1


-----------------------------------------------------------------------------
(* Properties of the apogee detection *)

\* the call just made returned an apogee event triggered by the confidence
\* (the late fallback's event carries a detection_note instead)
ConfidenceApogee ==
    /\ lastOp = "processed"
    /\ Len(returned) = 1
    /\ returned[1].phase_transition[2] = "APOGEE"
    /\ "within_window" \in DOMAIN returned[1].data

\* the mission time of the latest packet lies in the recorded window
InRecordedWindow ==
    /\ det.apogee_window_start_time # None
    /\ det.apogee_window_end_time # None
    /\ det.apogee_window_start_time[1] <= det.current_mission_time_s
    /\ det.current_mission_time_s <= det.apogee_window_end_time[1]

C30_WitnessInside ==
    /\ ConfidenceApogee
    /\ InRecordedWindow
    /\ returned[1].data.within_window
    /\ returned[1].data.detection_confidence = 100


-----------------------------------------------------------------------------
(* Properties of the apogee prediction *)

\* C31: once the detector has entered BURNOUT in a session, the predicted
\* apogee time and both window bounds are recorded, and on the packet that
\* enters BURNOUT the predicted time is the burnout mission time plus
\* v_z / 9.81 s.
C31_WindowAtBurnout ==
    det.burnout_mission_time # None =>
        /\ det.predicted_apogee_mission_time # None
        /\ det.apogee_window_start_time # None
        /\ det.apogee_window_end_time # None
        /\ (lastOp = "processed" /\ det.current_phase = "BURNOUT"
               /\ det.current_mission_time_s = det.burnout_mission_time[1]) =>
              det.predicted_apogee_mission_time[1]
                  = det.burnout_mission_time[1] + Last(det.vertical_velocity_samples) * 100


\* C32: whenever the flight summary reports an apogee prediction, its window
\* is centred on it: window_start = predicted_time - 5 s and window_end =
\* predicted_time + 5 s.
C32_WindowCentred ==
    ApogeePrediction(det).predicted_time # None =>
        /\ ApogeePrediction(det).window_start = Some(ApogeePrediction(det).predicted_time[1] - 5 * Sec)
        /\ ApogeePrediction(det).window_end = Some(ApogeePrediction(det).predicted_time[1] + 5 * Sec)


-----------------------------------------------------------------------------
(* Properties of the descent *)

\* C33: a packet takes the detector from DESCENT to LANDING only when the
\* altitude is below 20 m and the last ten vertical-velocity samples are all
\* below -1 m/s.
C33_LandingNeedsTenSamples ==
    [][(/\ det.current_phase = "DESCENT"
        /\ lastOp' = "processed"
        /\ det'.current_phase = "LANDING")
          => /\ Last(det'.altitude_samples) < landing_altitude_threshold_m
             /\ Len(det'.vertical_velocity_samples) >= 10
             /\ \A i \in 1..10 : LastN(det'.vertical_velocity_samples, 10)[i] < -10]_vars


-----------------------------------------------------------------------------
(* Properties of the measurement updates *)

\* the barometer update has run: it is the only step that correlates the
\* position with the barometer bias (K H P with H[0, 2] = -1, H[0, 14] = 1)
BaroApplied(kf) == "baro_bias" \in kf.P["pos"]

\* C34: the barometer update runs for every packet with an altitude, whether
\* or not the packet carries IMU fields.
C34_BaroOnEveryPacket ==
    (lastOp = "filtered" /\ TheCall.m.baro_alt) => BaroApplied(kalman)


\* C35: for an Armed sample of the parser the filter applies the magnetometer
\* update exactly when the sample's mag_valid flag is true: the measurement
\* the filter built from each processed record carries the magnetic field
\* in that case and only then.
C35_MagWhenValid ==
    \A i \in 1..Len(logged) :
        (logged[i].sample.mag # None /\ logged[i].filtered_state = "state") =>
            (MeasurementOf(logged[i]).mag <=> logged[i].quality.mag_valid)


-----------------------------------------------------------------------------
(* Properties of the phase history *)

\* C36: in every reachable state the phase history has exactly one more entry
\* than the event list, the current phase is the phase of the last history
\* entry, and the i-th event's phase_transition is (phase of history entry i,
\* phase of history entry i + 1).
C36_HistoryMatchesEvents ==
    /\ Len(det.phase_history) = Len(det.events) + 1
    /\ det.current_phase = Last(det.phase_history)[2]
    /\ \A i \in 1..Len(det.events) :
          /\ i + 1 <= Len(det.phase_history)
          /\ det.events[i].phase_transition = <<det.phase_history[i][2], det.phase_history[i + 1][2]>>

\* a second session: the detector was armed again after packets of the first
\* session, and the packets that followed took it to LAUNCH
C36_Witness ==
    /\ lastOp = "processed"
    /\ last_cmd = "arm"
    /\ free_left = 0
    /\ Len(det.events) = 2
    /\ det.events[1].phase_transition = <<"IDLE", "ARMED">>
    /\ det.current_phase = "LAUNCH"


\* the place of a phase in the flight order; IDLE, which no packet enters or
\* leaves, comes first
PhaseRank(p) ==
    CHOOSE i \in 1..10 :
        <<"IDLE", "ARMED", "LAUNCH", "BOOST", "BURNOUT", "COAST", "APOGEE", "DESCENT", "LANDING", "LANDED">>[i] = p

\* C37: a packet emits at most one event and never returns the detector to
\* an earlier phase of ARMED < LAUNCH < BOOST < BURNOUT < COAST < APOGEE <
\* DESCENT < LANDING < LANDED; in LANDED a packet changes neither the phase
\* nor the event list and emits nothing.
C37_ForwardOnly ==
    [][lastOp' \in PacketOutcomes =>
          /\ Len(returned') <= 1
          /\ PhaseRank(det'.current_phase) >= PhaseRank(det.current_phase)
          /\ det.current_phase = "LANDED" =>
                /\ det'.current_phase = "LANDED"
                /\ returned' = <<>>
                /\ det'.events = det.events
                /\ det'.phase_history = det.phase_history]_vars

\* a packet was processed after the landing
C37_Witness ==
    /\ lastOp = "processed"
    /\ det.current_phase = "LANDED"
    /\ returned = <<>>
    /\ det.landing_mission_time # None
    /\ det.current_mission_time_s > det.landing_mission_time[1]


\* the latest packet was processed in COAST: it is the latest sample of the
\* apogee predictor, which only COAST feeds
CoastPacketSeen ==
    /\ lastOp = "processed"
    /\ det.apogee_predictor.time_history # <<>>
    /\ Last(det.apogee_predictor.time_history) = det.current_mission_time_s
    /\ (returned = <<>> => det.current_phase = "COAST")

\* C38: in COAST the confidence path triggers apogee on a packet if and only
\* if the vertical velocity is within 0.5 m/s of zero and the sample is within
\* 1 s and 5 m of the tracked maximum altitude; the detection_confidence of
\* such an event is 0.8 or 1.0.
C38_ApogeeIff ==
    CoastPacketSeen =>
        /\ ConfidenceApogee <=>
              /\ Abs(Last(det.vertical_velocity_samples)) < apogee_velocity_threshold_mps
              /\ det.max_altitude_mission_time # None
              /\ Abs(det.current_mission_time_s - det.max_altitude_mission_time[1]) < Sec
              /\ Abs(Last(det.altitude_samples) - det.max_altitude_m) < 5
        /\ ConfidenceApogee => returned[1].data.detection_confidence \in {80, 100}

\* a COAST packet with the velocity near zero inside the window and close to
\* the prediction, but away from the maximum altitude: confidence 0.7, no apogee
C38_Witness ==
    /\ CoastPacketSeen
    /\ returned = <<>>
    /\ Abs(Last(det.vertical_velocity_samples)) < apogee_velocity_threshold_mps
    /\ InRecordedWindow
    /\ det.predicted_apogee_mission_time # None
    /\ Abs(det.current_mission_time_s - det.predicted_apogee_mission_time[1]) < 2 * Sec


-----------------------------------------------------------------------------
(* Properties of the shared serial reader *)

\* the lines the loop has handed to the parser
LinesParsed == parser.packet_count + parser.error_count

\* C39: while a command awaits its response no line is lost: every telemetry
\* line that arrived was handed to the parser, the response was not (it is
\* not counted as a parse error), and the acknowledged ARM is received by the
\* handler, which arms the detector, instead of timing out.
C39_NoLineLost ==
    /\ LinesParsed = script_pos
    /\ last_cmd \notin {"ack_parsed", "timeout"}
    /\ lastOp = "arm" => det.current_phase = "ARMED"


-----------------------------------------------------------------------------
(* Properties of the broadcast *)

\* C40: a broadcast is never aborted by a connect or disconnect made while it
\* was suspended in a send: it ends normally, every client that stayed
\* connected for the whole broadcast received the record unless its send
\* failed, and exactly the clients whose send failed were removed.
C40_BroadcastCompletes ==
    (ws.pc = "idle" /\ ws.record > 0) =>
        /\ ws.outcome = "done"
        /\ (ws.snapshot \ ws.gone) \subseteq (ws.got \cup ws.disconnected)
        /\ lastOp = "sent" => ws.clients \cap ws.disconnected = {}

====
